---- MODULE Spec2Model ----
(***************************************************************************)
(* Movement-and-collision core of avgame: the bitecs world wrapper         *)
(* (src/ecs/world.ts), the ECS systems, the CollisionSystem and            *)
(* Player.update.                                                          *)
(*                                                                         *)
(* Numbers.  The program computes in IEEE doubles.  Here every length,     *)
(* coordinate and velocity component is a fixed-point integer counting     *)
(* 1/Scale of a world unit (Scale = 10000, so 0.4 is 4000 and the push-out *)
(* 0.01 is 100).  Products are rounded to the nearest 1/Scale, square      *)
(* roots are rounded down.  On the input grids used below the quantities   *)
(* the claims speak about (axis-aligned normals, 3-4-5 corner normals) are *)
(* computed without any rounding.                                          *)
(***************************************************************************)
EXTENDS Integers, Sequences, FiniteSets

VARIABLES
    \* --- src/ecs/world.ts and the bitecs world it wraps
    world,             \* 0 = null, otherwise the number of the current world
    entities,          \* entity ids that exist in the current world
    entityCursor,      \* bitecs global entity cursor (next fresh id)
    entitiesToDelete,  \* module-level array of ids scheduled for deletion
    componentMask,     \* [eid -> set of component names] in the current world
    Transform,         \* component store, [eid -> [x, y, z, rotY]]
    Velocity,          \* component store, [eid -> [dx, dy, dz]]
    Collider,          \* component store, [eid -> [radius, height, flags]]
    pc,                \* position inside one call of the pipeline function
    ran,               \* steps the current (or last) pipeline call has run
    ticks,             \* number of pipeline calls started
    purged,            \* history: ids processEntityDeletions has removed
    scheduledIn,       \* history: per entry of entitiesToDelete, the world
                       \* that was current when the entry was pushed
    called,            \* history: the last call on the world, [op, entity]
    thrown,            \* the error that call raised, or "none"
    \* --- CollisionSystem
    collisionSystemInstance,  \* TRUE once initCollisionSystem has been called
    staticColliders,   \* CollisionSystem.staticColliders, a list of AABBs
    showColliders,     \* GameLoop's showColliders
    debugMeshes,       \* the scene's 'debug-collider' meshes
    generations,       \* history: generateWallColliders calls made
    \* --- Player
    position,          \* Player.position
    velocity,          \* Player.velocity
    moveAxes,          \* inputManager axes read by the last Player.update
    startClear,        \* the capsule overlapped no static AABB when play began
    updates,           \* number of Player.update calls made
    keyEvents,         \* number of keyboard events handled
    clampStep,         \* history: velocity before and after the last clamp
    \* --- one call sequence of the CollisionSystem's public functions
    capsule,           \* the capsule argument
    argVelocity,       \* the velocity argument
    collisions,        \* value returned by checkCapsuleCollision
    resolved,          \* value returned by resolveCollisions
    resolvedAgain,     \* value returned by resolveCollisions on `resolved`
    phase,             \* "args" -> "checked" -> "resolved" -> "again"
    \* --- GameLoop
    isRunning,         \* GameLoop's isRunning
    lastTime,          \* GameLoop's lastTime
    accumulator,       \* GameLoop's accumulator
    pending,           \* what the browser holds: "timer", "frame" or "none"
    frameTicks,        \* history: fixedUpdate calls made by the last frame
    discarded,         \* history: frame time in excess of MAX_FRAME_TIME
    \* --- InputManager
    held,              \* keys and mouse buttons physically down
    keyState,          \* InputManager.keyState: the keys recorded as down
    actionState,       \* InputManager.actionState, undefined, true or false per action
    axes,              \* InputManager.axes, its moveX and moveY
    lastEvent,         \* history: the last input event handled
    sinceBlur,         \* history: no keydown or mousedown since the last blur
    emitted,           \* event bus: per action, the last two input events emitted
    \* --- the continuations of gameLoop the browser holds
    timers,            \* setTimeout callbacks of gameLoop not yet run
    frames,            \* requestAnimationFrame(gameLoop) requests not yet run
    frameId,           \* GameLoop.frameId: "null", or whether the request it
                       \* names is still outstanding ("live") or not ("stale")
    resumedByKey,      \* history: the last P key press set isRunning to true
    stepped,           \* history: fixedUpdate was called since the last P key
    \* --- AssetManager
    cache,             \* AssetManager.cache, per key [ref, gen, asset]; ref = 0: no record
    totalAssets,
    loadedAssets,
    loading,           \* the loader calls not yet settled, <<key, gen>>
    fulfilled,         \* the promises load() made that are resolved, <<key, gen>>
    awaiting,          \* the Promise.all of each loadInitialAssets call under way
    assetLog           \* history of the calls and of the events dispatched

ecsVars == <<world, entities, entityCursor, entitiesToDelete, componentMask,
             Transform, Velocity, Collider, pc, ran, ticks, purged, scheduledIn,
             called,
             thrown>>
playerVars == <<position, velocity, moveAxes, startClear, updates, keyEvents,
                clampStep>>
callVars == <<capsule, argVelocity, collisions, resolved, resolvedAgain, phase>>
loopVars == <<isRunning, lastTime, accumulator, pending, frameTicks, discarded>>
collisionVars == <<collisionSystemInstance, staticColliders, showColliders,
                   debugMeshes, generations>>
inputVars == <<held, keyState, actionState, axes, lastEvent, sinceBlur,
               emitted>>
chainVars == <<timers, frames, frameId, resumedByKey, stepped>>
assetVars == <<cache, totalAssets, loadedAssets, loading, fulfilled, awaiting,
               assetLog>>
vars == <<ecsVars, collisionVars, playerVars, callVars, loopVars, inputVars,
          chainVars, assetVars>>

----------------------------------------------------------------------------
(* Fixed-point arithmetic and THREE.Vector3                                *)

Scale == 10 * 1000

Abs(a) == IF a < 0 THEN -a ELSE a
Min(a, b) == IF a < b THEN a ELSE b
Max(a, b) == IF a > b THEN a ELSE b

\* a / b rounded to the nearest integer (b > 0).
RDiv(a, b) == (a + (b \div 2)) \div b

\* n/d of a world unit as a fixed-point number.
Fx(n, d) == (n * Scale) \div d

Vec(x, y, z) == [x |-> x, y |-> y, z |-> z]
Zero3 == Vec(0, 0, 0)

AddVectors(a, b) == Vec(a.x + b.x, a.y + b.y, a.z + b.z)
SubVectors(a, b) == Vec(a.x - b.x, a.y - b.y, a.z - b.z)

\* Vector3.multiplyScalar by the fixed-point scalar s.
MultiplyScalar(v, s) ==
    Vec(RDiv(v.x * s, Scale), RDiv(v.y * s, Scale), RDiv(v.z * s, Scale))

\* Vector3.multiplyScalar by the ratio n/d (used for dt = 1/60, 0.8 = 8/10).
MultiplyRatio(v, n, d) ==
    Vec(RDiv(v.x * n, d), RDiv(v.y * n, d), RDiv(v.z * n, d))

\* Vector3.dot before the final scaling: the sign of the result is exact.
DotRaw(a, b) == a.x * b.x + a.y * b.y + a.z * b.z
Dot(a, b) == RDiv(DotRaw(a, b), Scale)

\* a * a as hi * Limb^2 + lo with 0 <= lo < Limb^2: squares of velocities of
\* a few units per second do not fit the checker's 32-bit integers.
Limb == Scale \div 10
Carry(hi, lo) == [hi |-> hi + lo \div (Limb * Limb), lo |-> lo % (Limb * Limb)]
SqLimbs(q, r) == Carry(q * q, 2 * q * r * Limb + r * r)
SqPair(a) == SqLimbs(Abs(a) \div Limb, Abs(a) % Limb)

\* Vector3.lengthSq as such a pair.
AddPairs(a, b, c) == Carry(a.hi + b.hi + c.hi, a.lo + b.lo + c.lo)
LengthSq(v) == AddPairs(SqPair(v.x), SqPair(v.y), SqPair(v.z))

PairLess(p, q) == p.hi < q.hi \/ (p.hi = q.hi /\ p.lo < q.lo)
PairLeq(p, q) == ~PairLess(q, p)

\* The squared fixed-point value of n/d world units, as a pair.
SqOf(n, d) == SqPair(Fx(n, d))

\* floor(sqrt(t)) for a pair t, by bisection on [lo, hi).
RECURSIVE SqrtBetween(_, _, _)
SqrtBetween(lo, hi, t) ==
    IF hi - lo <= 1 THEN lo
    ELSE LET mid == (lo + hi) \div 2
         IN  IF PairLeq(SqPair(mid), t)
             THEN SqrtBetween(mid, hi, t)
             ELSE SqrtBetween(lo, mid, t)

SqrtCeiling == 512 * 1024
Sqrt(t) == SqrtBetween(0, SqrtCeiling, t)

\* Vector3.length
Length(v) == Sqrt(LengthSq(v))

\* Vector3.normalize: divideScalar(length() || 1)
DivideScalar(v, len) ==
    Vec(RDiv(v.x * Scale, len), RDiv(v.y * Scale, len), RDiv(v.z * Scale, len))
DivideOr(v, len, other) == IF len > 0 THEN DivideScalar(v, len) ELSE other
Normalize(v) == DivideOr(v, Length(v), v)

----------------------------------------------------------------------------
(* Renderer.createTestGrid: the wall InstancedMesh                         *)

tileSize == Scale
roomSize == 12
openingSize == 3

\* One instance position per slot of wallInstances, in slot order.
GridCells == [i \in 1..(roomSize * roomSize) |->
                 [x |-> (i - 1) \div roomSize, z |-> (i - 1) % roomSize]]
IsPerimeter(c) ==
    c.x = 0 \/ c.x = roomSize - 1 \/ c.z = 0 \/ c.z = roomSize - 1
TilePos(c) ==
    Vec((c.x - roomSize \div 2) * tileSize, Fx(1, 2),
        (c.z - roomSize \div 2) * tileSize)
PerimeterCells == SelectSeq(GridCells, IsPerimeter)
PerimeterWalls == [i \in 1..Len(PerimeterCells) |-> TilePos(PerimeterCells[i])]

openingStart == (roomSize - openingSize) \div 2
InOpening(x) == x >= openingStart /\ x < openingStart + openingSize
DividerColumns ==
    SelectSeq([i \in 1..(roomSize - 2) |-> i], LAMBDA x : ~InOpening(x))
DividerWalls ==
    [i \in 1..Len(DividerColumns) |->
        Vec((DividerColumns[i] - roomSize \div 2) * tileSize, Fx(1, 2), 0)]

ObstacleWalls ==
    << Vec(-3 * Scale, Fx(1, 2), -3 * Scale), Vec(3 * Scale, Fx(1, 2), -3 * Scale),
       Vec(-2 * Scale, Fx(1, 2), 3 * Scale), Vec(-1 * Scale, Fx(1, 2), 3 * Scale),
       Vec(-2 * Scale, Fx(1, 2), 4 * Scale), Vec(-1 * Scale, Fx(1, 2), 4 * Scale) >>

\* The tiles the level builder places, in the order of wallIndex.
PlacedWalls == PerimeterWalls \o DividerWalls \o ObstacleWalls

\* InstancedMesh.count: the slots allocated for walls.
totalWallTiles == (roomSize * 4 - 4) + (roomSize - 4) + 6

\* Position of every slot: a slot that setMatrixAt never wrote keeps the
\* identity matrix, whose position is the origin.
WallInstances ==
    [i \in 1..totalWallTiles |->
        IF i <= Len(PlacedWalls) THEN PlacedWalls[i] ELSE Zero3]

----------------------------------------------------------------------------
(* CollisionSystem                                                         *)

AABB(min, max) == [min |-> min, max |-> max]

\* generateWallColliders: one box per instance slot, replacing the old list.
WallCollider(p, size) ==
    AABB(Vec(p.x - size \div 2, p.y - Fx(1, 2), p.z - size \div 2),
         Vec(p.x + size \div 2, p.y + Fx(1, 2), p.z + size \div 2))
GenerateWallColliders(instances, size) ==
    [i \in 1..Len(instances) |-> WallCollider(instances[i], size)]

\* The per-axis clamped closest point of a box to p.
ClosestPoint(p, aabb) ==
    Vec(Max(aabb.min.x, Min(p.x, aabb.max.x)),
        Max(aabb.min.y, Min(p.y, aabb.max.y)),
        Max(aabb.min.z, Min(p.z, aabb.max.z)))

SphereIntersectsAABB(center, radius, aabb) ==
    PairLeq(LengthSq(SubVectors(ClosestPoint(center, aabb), center)),
            SqPair(radius))

CapsuleIntersectsAABB(cap, aabb) ==
    \/ SphereIntersectsAABB(cap.start, cap.radius, aabb)
    \/ SphereIntersectsAABB(cap.end, cap.radius, aabb)

\* Variant: stops at the first hit, as the single-collider version did.
CheckCapsuleCollisionFirstOnly(cap, colliders) ==
    LET hit == SelectSeq(colliders, LAMBDA c : CapsuleIntersectsAABB(cap, c))
    IN  IF Len(hit) = 0 THEN hit ELSE <<hit[1]>>

CheckCapsuleCollision(cap, colliders) ==
    SelectSeq(colliders, LAMBDA c : CapsuleIntersectsAABB(cap, c))

\* The normalised penetration vector of one box, (1,0,0) when the start
\* endpoint is inside or on the box.
PenetrationVector(cap, collider) ==
    SubVectors(cap.start, ClosestPoint(cap.start, collider))
UnitOr(penetration, other) == DivideOr(penetration, Length(penetration), other)
\* Variant: a zero penetration vector is left as it is.
PenetrationNormalUnset(cap, collider) ==
    UnitOr(PenetrationVector(cap, collider), Zero3)
PenetrationNormal(cap, collider) ==
    UnitOr(PenetrationVector(cap, collider), Vec(Scale, 0, 0))

pushFactor == Fx(1, 100)

\* Variant: no push-out vector is added.
ResolveOneNoPush(cap, newVelocity, collider) ==
    IF Length(PenetrationVector(cap, collider)) < cap.radius
    THEN LET penetration == PenetrationNormal(cap, collider)
         IN  IF DotRaw(newVelocity, penetration) < 0
             THEN SubVectors(newVelocity,
                      MultiplyScalar(penetration, Dot(newVelocity, penetration)))
             ELSE newVelocity
    ELSE newVelocity

\* Variant: a blocked velocity is replaced by the push-out alone (stop, no slide).
ResolveOneStop(cap, newVelocity, collider) ==
    IF Length(PenetrationVector(cap, collider)) < cap.radius
    THEN LET penetration == PenetrationNormal(cap, collider)
         IN  IF DotRaw(newVelocity, penetration) < 0
             THEN MultiplyScalar(penetration, pushFactor)
             ELSE newVelocity
    ELSE newVelocity

\* Variant: the push-out is added outside the test of the dot product.
ResolveOnePushAlways(cap, newVelocity, collider) ==
    IF Length(PenetrationVector(cap, collider)) < cap.radius
    THEN LET penetration == PenetrationNormal(cap, collider)
             pushVector == MultiplyScalar(penetration, pushFactor)
         IN  IF DotRaw(newVelocity, penetration) < 0
             THEN AddVectors(SubVectors(newVelocity,
                      MultiplyScalar(penetration, Dot(newVelocity, penetration))),
                      pushVector)
             ELSE AddVectors(newVelocity, pushVector)
    ELSE newVelocity

\* Variant: the projection is added instead of subtracted.
ResolveOneWrongSign(cap, newVelocity, collider) ==
    IF Length(PenetrationVector(cap, collider)) < cap.radius
    THEN LET penetration == PenetrationNormal(cap, collider)
         IN  IF DotRaw(newVelocity, penetration) < 0
             THEN AddVectors(newVelocity,
                      MultiplyScalar(penetration, Dot(newVelocity, penetration)))
             ELSE newVelocity
    ELSE newVelocity

\* The body of the loop over the colliders, for one collider.
SlideAlong(newVelocity, penetration) ==
    IF DotRaw(newVelocity, penetration) < 0
    THEN AddVectors(
             SubVectors(newVelocity,
                        MultiplyScalar(penetration, Dot(newVelocity, penetration))),
             MultiplyScalar(penetration, pushFactor))
    ELSE newVelocity
ResolveOne(cap, newVelocity, collider) ==
    IF Length(PenetrationVector(cap, collider)) < cap.radius
    THEN SlideAlong(newVelocity, PenetrationNormal(cap, collider))
    ELSE newVelocity

RECURSIVE ResolveEach(_, _, _, _)
ResolveEach(cap, newVelocity, colliders, i) ==
    IF i > Len(colliders) THEN newVelocity
    ELSE ResolveEach(cap, ResolveOne(cap, newVelocity, colliders[i]),
                     colliders, i + 1)

BoxCenter(collider) ==
    MultiplyRatio(AddVectors(collider.min, collider.max), 1, 2)

RECURSIVE AvgPushDir(_, _, _)
AvgPushDir(cap, colliders, i) ==
    IF i > Len(colliders) THEN Zero3
    ELSE AddVectors(Normalize(SubVectors(cap.start, BoxCenter(colliders[i]))),
                    AvgPushDir(cap, colliders, i + 1))

stuckThreshold == SqOf(1, 10)
stuckPush == Fx(5, 100)

\* Variant: the nudge points from the capsule to the box centres.
StuckFallbackInward(cap, newVelocity, colliders) ==
    IF Len(colliders) > 1 /\ PairLess(LengthSq(newVelocity), stuckThreshold)
    THEN LET avgPushDir == AvgPushDir(cap, colliders, 1)
         IN  IF avgPushDir # Zero3
             THEN SubVectors(newVelocity,
                             MultiplyScalar(Normalize(avgPushDir), stuckPush))
             ELSE newVelocity
    ELSE newVelocity

\* The corner fallback that follows the loop.
Nudge(newVelocity, avgPushDir) ==
    IF avgPushDir # Zero3
    THEN AddVectors(newVelocity, MultiplyScalar(Normalize(avgPushDir), stuckPush))
    ELSE newVelocity
StuckFallback(cap, newVelocity, colliders) ==
    IF Len(colliders) > 1 /\ PairLess(LengthSq(newVelocity), stuckThreshold)
    THEN Nudge(newVelocity, AvgPushDir(cap, colliders, 1))
    ELSE newVelocity

ResolveCollisions(cap, v, colliders) ==
    IF Len(colliders) = 0 THEN v
    ELSE StuckFallback(cap, ResolveEach(cap, v, colliders, 1), colliders)

----------------------------------------------------------------------------
(* Player                                                                  *)

speed == 24
maxSpeed == 15
radius == Fx(4, 10)
height == Fx(18, 10)
FIXED_TIMESTEP_HZ == 60

\* inputManager.getMovementAxes: (right - left, up - down), divided by its
\* length sqrt(2) when both are non-zero.
Diagonal == Length(Vec(Scale, Scale, 0))
Axis(k) == IF k = 0 THEN 0 ELSE RDiv(k * Scale * Scale, Diagonal)
MovementAxes(right, left, up, down) ==
    LET mx == right - left
        my == up - down
    IN  IF mx # 0 /\ my # 0 THEN [x |-> Axis(mx), y |-> Axis(my)]
        ELSE [x |-> mx * Scale, y |-> my * Scale]

\* transformInputAxes with the camera at its initial rotation (PI/2, looking
\* down -Z): forward = (0,0,-1), right = forward x up = (1,0,0).
TransformInputAxes(inputX, inputY) ==
    LET move == Vec(inputX, 0, -inputY)
    IN  IF PairLess(SqPair(Scale), LengthSq(move)) THEN Normalize(move)
        ELSE move

CreateCapsuleCollider(p) ==
    [start |-> Vec(p.x, p.y - height \div 2 + radius, p.z),
     end |-> Vec(p.x, p.y + height \div 2 - radius, p.z),
     radius |-> radius]

\* checkCollisionAtPosition, reading this.velocity = v.
CollisionResult(cap, v, hit) ==
    IF Len(hit) > 0
    THEN [collision |-> TRUE, newVelocity |-> ResolveCollisions(cap, v, hit)]
    ELSE [collision |-> FALSE, newVelocity |-> v]
CollisionOfCapsule(cap, v, colliders) ==
    CollisionResult(cap, v, CheckCapsuleCollision(cap, colliders))
CheckCollisionAtPosition(p, v, colliders) ==
    CollisionOfCapsule(CreateCapsuleCollider(p), v, colliders)

\* The velocity with no clamp applied.
ClampVelocityOff(v) == v

\* The clamp to maxSpeed.
ClampVelocity(v) ==
    IF PairLess(SqPair(maxSpeed * Scale), LengthSq(v))
    THEN MultiplyScalar(Normalize(v), maxSpeed * Scale)
    ELSE v

friction == Fx(8, 10)

\* Player.update for one fixed tick: the new [position, velocity].
Acceleration(w) == Vec(w.x * speed, 0, w.z * speed)
Damp(v, acceleration) ==
    MultiplyScalar(
        AddVectors(v, MultiplyRatio(acceleration, 1, FIXED_TIMESTEP_HZ)), friction)
Accelerate(v, acceleration) == ClampVelocity(Damp(v, acceleration))
NextPosition(p, v) == AddVectors(p, MultiplyRatio(v, 1, FIXED_TIMESTEP_HZ))
Commit(p, v, collisionResult) ==
    IF collisionResult.collision
    THEN [position |-> NextPosition(p, collisionResult.newVelocity),
          velocity |-> collisionResult.newVelocity]
    ELSE [position |-> NextPosition(p, v), velocity |-> v]
Move(p, v, colliders) ==
    Commit(p, v, CheckCollisionAtPosition(NextPosition(p, v), v, colliders))
PlayerUpdate(p, v, moved, colliders) ==
    Move(p, Accelerate(v, Acceleration(TransformInputAxes(moved.x, moved.y))),
         colliders)
\* The velocity entering the clamp of that tick.
Damped(v, moved) == Damp(v, Acceleration(TransformInputAxes(moved.x, moved.y)))

----------------------------------------------------------------------------
(* States of the parts a specification does not exercise                   *)

MaxEntities == 3
Eids == 0..(MaxEntities - 1)

\* A call on the world and the handle it was given (NoEntity: none).
NoEntity == 0 - 1
Call(op, entity) == [op |-> op, entity |-> entity]

EcsAtRest ==
    /\ world = 0
    /\ entities = {}
    /\ entityCursor = 0
    /\ entitiesToDelete = <<>>
    /\ componentMask = [e \in Eids |-> {}]
    /\ Transform = [e \in Eids |-> [x |-> 0, y |-> 0, z |-> 0, rotY |-> 0]]
    /\ Velocity = [e \in Eids |-> [dx |-> 0, dy |-> 0, dz |-> 0]]
    /\ Collider = [e \in Eids |-> [radius |-> 0, height |-> 0, flags |-> 0]]
    /\ pc = "idle"
    /\ ran = <<>>
    /\ ticks = 0
    /\ purged = {}
    /\ scheduledIn = <<>>
    /\ called = Call("none", NoEntity)
    /\ thrown = "none"

NoCall ==
    /\ capsule = CreateCapsuleCollider(Zero3)
    /\ argVelocity = Zero3
    /\ collisions = <<>>
    /\ resolved = Zero3
    /\ resolvedAgain = Zero3
    /\ phase = "none"

NoPlayer ==
    /\ position = Zero3
    /\ velocity = Zero3
    /\ moveAxes = [x |-> 0, y |-> 0]
    /\ startClear = FALSE
    /\ updates = 0
    /\ keyEvents = 0
    /\ clampStep = [before |-> Zero3, after |-> Zero3]

\* initCollisionSystem called, collider view off.
CollisionSystemReady ==
    /\ collisionSystemInstance = TRUE
    /\ showColliders = FALSE
    /\ debugMeshes = <<>>
    /\ generations = 0

\* InputManager as constructed: nothing down, no action state recorded.
InputAction == {"MOVE_UP", "MOVE_DOWN", "MOVE_LEFT", "MOVE_RIGHT",
                "PRIMARY_ACTION", "SECONDARY_ACTION"}
NoInput ==
    /\ held = {}
    /\ keyState = {}
    /\ actionState = [a \in InputAction |-> "undefined"]
    /\ axes = [x |-> 0, y |-> 0]
    /\ lastEvent = [type |-> "none", input |-> "none", recorded |-> FALSE]
    /\ sinceBlur = FALSE
    /\ emitted = [a \in InputAction |-> [prev |-> "none", last |-> "none"]]

\* No continuation of gameLoop is followed.
NoChain ==
    /\ timers = 0
    /\ frames = 0
    /\ frameId = "null"
    /\ resumedByKey = FALSE
    /\ stepped = FALSE

\* The keys of MOCK_ASSETS, the initial assets, and one more key.
MOCK_ASSETS == {"tile_floor", "tile_wall", "player"}
AssetKeys == MOCK_ASSETS \cup {"music"}
NoRecord == [ref |-> 0, gen |-> 0, asset |-> 0]
NoAssetLog ==
    [op |-> "none",
     key |-> "none",
     returned |-> <<"none", 0>>,
     loaderCalls |-> [key \in AssetKeys |-> 0],
     disposed |-> [key \in AssetKeys |-> 0],
     loads |-> [key \in AssetKeys |-> 0],
     releases |-> [key \in AssetKeys |-> 0],
     initialCalls |-> 0,
     completed |-> 0,
     assetsLoaded |-> 0,
     progress |-> [loaded |-> 0, total |-> 0]]

\* AssetManager as constructed.
NoAssets ==
    /\ cache = [key \in AssetKeys |-> NoRecord]
    /\ totalAssets = 0
    /\ loadedAssets = 0
    /\ loading = {}
    /\ fulfilled = {}
    /\ awaiting = {}
    /\ assetLog = NoAssetLog

NoLoop ==
    /\ isRunning = FALSE
    /\ lastTime = 0
    /\ accumulator = 0
    /\ pending = "none"
    /\ frameTicks = 0
    /\ discarded = 0

----------------------------------------------------------------------------
(* SpecCall: checkCapsuleCollision and resolveCollisions as functions.     *)
(* Init draws the static list, the capsule and the velocity; the actions   *)
(* are the calls Player.checkCollisionAtPosition makes, and a repeated     *)
(* resolveCollisions on the velocity it got back.                          *)

\* A box given in hundredths of a world unit.
Box(x0, x1, y0, y1, z0, z1) ==
    AABB(Vec(Fx(x0, 100), Fx(y0, 100), Fx(z0, 100)),
         Vec(Fx(x1, 100), Fx(y1, 100), Fx(z1, 100)))

WallA == Box(-50, 50, 0, 100, 50, 150)     \* the wall of Scenario A
WallB == Box(50, 150, 0, 100, -50, 50)     \* orthogonal to it, corner (0.5, 0.5)
WallL == Box(-130, -30, 0, 100, -50, 50)   \* a pair placed symmetrically
WallR == Box(30, 130, 0, 100, -50, 50)     \*   about the point (0, 0.5, 0)

CallStaticLists ==
    { <<>>, <<WallA>>, <<WallB>>, <<WallA, WallB>>, <<WallB, WallA>>,
      <<WallL, WallR>>, <<WallL, WallA, WallR>> }

\* Positions of the capsule, in hundredths.
CallPositions ==
    { Vec(Fx(0, 100), Fx(90, 100), Fx(35, 100)),    \* Scenario A and B
      Vec(Fx(30, 100), Fx(90, 100), Fx(30, 100)),   \* Scenario C, in the corner
      Vec(Fx(62, 100), Fx(90, 100), Fx(34, 100)),   \* 3-4-5 from WallA's edge
      Vec(Fx(0, 100), Fx(90, 100), Fx(10, 100)),    \* exactly radius from WallA
      Vec(Fx(0, 100), Fx(90, 100), Fx(0, 100)),     \* between WallL and WallR
      Vec(Fx(0, 100), Fx(100, 100), Fx(0, 100)),    \* the same, start at y = 0.5
      Vec(Fx(0, 100), Fx(-10, 100), Fx(35, 100)),   \* only the end sphere hits
      Vec(Fx(0, 100), Fx(90, 100), Fx(-200, 100)) } \* far from everything

CallVelocities ==
    { Vec(Fx(0, 100), 0, Fx(500, 100)),             \* Scenario A
      Vec(Fx(300, 100), 0, Fx(300, 100)),           \* Scenario B and C
      Vec(Fx(-300, 100), 0, Fx(300, 100)),
      Vec(Fx(300, 100), 0, Fx(-300, 100)),
      Vec(Fx(-5, 100), 0, Fx(0, 100)),
      Vec(Fx(0, 100), 0, Fx(5, 100)),
      Vec(Fx(5, 100), 0, Fx(5, 100)),
      Zero3 }

InitCall ==
    /\ EcsAtRest
    /\ NoPlayer
    /\ NoLoop
    /\ NoInput
    /\ NoChain
    /\ NoAssets
    /\ staticColliders \in CallStaticLists
    /\ CollisionSystemReady
    /\ \E p \in CallPositions : capsule = CreateCapsuleCollider(p)
    /\ argVelocity \in CallVelocities
    /\ collisions = <<>>
    /\ resolved = Zero3
    /\ resolvedAgain = Zero3
    /\ phase = "args"

CallCheckCapsuleCollision ==
    /\ phase = "args"
    /\ collisions' = CheckCapsuleCollision(capsule, staticColliders)
    /\ phase' = "checked"
    /\ UNCHANGED <<ecsVars, collisionVars, playerVars, loopVars, inputVars, chainVars, assetVars, capsule, argVelocity,
                   resolved, resolvedAgain>>

CallResolveCollisions ==
    /\ phase = "checked"
    /\ resolved' = ResolveCollisions(capsule, argVelocity, collisions)
    /\ phase' = "resolved"
    /\ UNCHANGED <<ecsVars, collisionVars, playerVars, loopVars, inputVars, chainVars, assetVars, capsule, argVelocity,
                   collisions, resolvedAgain>>

CallResolveCollisionsAgain ==
    /\ phase = "resolved"
    /\ resolvedAgain' = ResolveCollisions(capsule, resolved, collisions)
    /\ phase' = "again"
    /\ UNCHANGED <<ecsVars, collisionVars, playerVars, loopVars, inputVars, chainVars, assetVars, capsule, argVelocity,
                   collisions, resolved>>

NextCall ==
    \/ CallCheckCapsuleCollision
    \/ CallResolveCollisions
    \/ CallResolveCollisionsAgain

SpecCall == InitCall /\ [][NextCall]_vars

----------------------------------------------------------------------------
(* SpecInside: the same calls, for a capsule whose start endpoint is on the *)
(* surface of a box, inside it, or at its centre.                          *)

WallM == Box(-50, 50, 0, 100, -50, 50)     \* centred at (0, 0.5, 0), overlaps WallR

InsideStaticLists ==
    { <<WallA>>, <<WallM>>, <<WallM, WallR>>, <<WallR, WallM>>,
      <<WallL, WallM, WallR>> }

\* Positions of the capsule, in hundredths; its start endpoint is 0.5 lower.
InsidePositions ==
    { Vec(Fx(0, 100), Fx(90, 100), Fx(50, 100)),    \* start on WallA's face z = 0.5
      Vec(Fx(0, 100), Fx(90, 100), Fx(100, 100)),   \* start inside WallA
      Vec(Fx(0, 100), Fx(100, 100), Fx(100, 100)),  \* start at WallA's centre
      Vec(Fx(0, 100), Fx(100, 100), Fx(0, 100)),    \* start at WallM's centre
      Vec(Fx(50, 100), Fx(100, 100), Fx(0, 100)),   \* start on WallM's face x = 0.5
      Vec(Fx(0, 100), Fx(90, 100), Fx(35, 100)) }   \* start 0.15 outside WallA

InitInside ==
    /\ EcsAtRest
    /\ NoPlayer
    /\ NoLoop
    /\ NoInput
    /\ NoChain
    /\ NoAssets
    /\ staticColliders \in InsideStaticLists
    /\ CollisionSystemReady
    /\ \E p \in InsidePositions : capsule = CreateCapsuleCollider(p)
    /\ argVelocity \in CallVelocities
    /\ collisions = <<>>
    /\ resolved = Zero3
    /\ resolvedAgain = Zero3
    /\ phase = "args"

SpecInside == InitInside /\ [][NextCall]_vars

\* The boxes of the call whose closest point is the start endpoint itself.
ZeroSeparation(collider) == PenetrationVector(capsule, collider) = Zero3
Resolved == phase \in {"resolved", "again"}
FiniteBound(v, n) == Length(v) + 1 + n * pushFactor + stuckPush
Finite(r, v, n) ==
    /\ Abs(r.x) <= FiniteBound(v, n)
    /\ Abs(r.y) <= FiniteBound(v, n)
    /\ Abs(r.z) <= FiniteBound(v, n)

\* C23: when the start endpoint of the capsule lies inside or exactly on a
\* box, resolveCollisions takes (1,0,0) as that box's normal (with that box
\* alone, a velocity with negative x comes back with x = 0.01 and its other
\* components kept, any other velocity comes back as it is), and the velocity
\* returned is a finite number in each component, no larger than the speed
\* given plus the pushes added; this also when the start endpoint is the
\* centre of a box and the corner fallback runs.
C23_ZeroSeparationFinite ==
    Resolved =>
        /\ Finite(resolved, argVelocity, Len(collisions))
        /\ (Len(collisions) = 1 /\ ZeroSeparation(collisions[1])) =>
              resolved = IF argVelocity.x < 0
                         THEN Vec(pushFactor, argVelocity.y, argVelocity.z)
                         ELSE argVelocity
        /\ (phase = "again") =>
              Finite(resolvedAgain, resolved, Len(collisions))

\* The start endpoint is inside WallA alone and the velocity had negative x.
C23_Witness ==
    /\ Resolved
    /\ collisions = <<WallA>>
    /\ ZeroSeparation(WallA)
    /\ argVelocity.x < 0
    /\ resolved.x = pushFactor

\* The start endpoint is WallM's centre, WallR overlaps too, and the corner
\* fallback has added its push away from WallR.
C23_FallbackReached ==
    /\ Resolved
    /\ Len(collisions) = 2
    /\ capsule.start = BoxCenter(WallM)
    /\ argVelocity = Vec(Fx(-5, 100), 0, 0)
    /\ resolved = Vec(0 - (pushFactor + stuckPush), 0, 0)

----------------------------------------------------------------------------
(* Claims about the CollisionSystem functions (SpecCall)                   *)

Returned == phase \in {"resolved", "again"}
Cross(a, b) ==
    Vec(a.y * b.z - a.z * b.y, a.z * b.x - a.x * b.z, a.x * b.y - a.y * b.x)
Distance(cap, box) == Length(PenetrationVector(cap, box))
Penetrating(cap, box) == Distance(cap, box) < cap.radius
\* The part of u tangential to the unit vector n.
Tangential(u, n) == SubVectors(u, MultiplyScalar(n, Dot(u, n)))
ScenarioCapsule == CreateCapsuleCollider(Vec(0, Fx(90, 100), Fx(35, 100)))

\* The sphere test written from the distances to the box along each axis.
AxisGap(c, lo, hi) == IF c < lo THEN lo - c ELSE IF c > hi THEN c - hi ELSE 0
SphereTouches(center, r, box) ==
    LET gx == AxisGap(center.x, box.min.x, box.max.x)
        gy == AxisGap(center.y, box.min.y, box.max.y)
        gz == AxisGap(center.z, box.min.z, box.max.z)
    IN  /\ gx <= r /\ gy <= r /\ gz <= r
        /\ gx * gx + gy * gy + gz * gz <= r * r

\* C4: checkCapsuleCollision returns, in static-list order, exactly the static
\* boxes whose sphere test succeeds for the capsule's start endpoint or for its
\* end endpoint; the result is the empty list when there is none.
C4_AllOverlappingInOrder ==
    phase # "args" =>
        collisions = SelectSeq(staticColliders,
            LAMBDA b : \/ SphereTouches(capsule.start, capsule.radius, b)
                       \/ SphereTouches(capsule.end, capsule.radius, b))

\* C4 witness: two of three static boxes are returned, the middle one is left
\* out; and a box that only the end sphere touches is returned.
C4_Witness ==
    /\ phase = "checked"
    /\ staticColliders = <<WallL, WallA, WallR>>
    /\ collisions = <<WallL, WallR>>

\* C5: for one overlapping box with unit normal n: when the start endpoint is
\* nearer than the radius and v.n < 0 the result has normal component 0.01 and
\* differs from v only along n (it is v - (v.n)n + 0.01n); otherwise it is v.
\* In Scenario A the result has x = 0 and |z| <= 0.01.
C5_SingleBoxSliding ==
    (Returned /\ Len(collisions) = 1) =>
        LET b == collisions[1]
            n == PenetrationNormal(capsule, b)
        IN  /\ IF Penetrating(capsule, b) /\ DotRaw(argVelocity, n) < 0
               THEN /\ Dot(resolved, n) = pushFactor
                    /\ Cross(SubVectors(resolved, argVelocity), n) = Zero3
               ELSE resolved = argVelocity
            /\ (capsule = ScenarioCapsule /\ b = WallA
                    /\ argVelocity = Vec(0, 0, 5 * Scale))
               => (resolved.x = 0 /\ Abs(resolved.z) <= pushFactor)

\* C5 witness: Scenario A has been resolved to (0, 0, -0.01).
C5_Witness ==
    /\ phase = "resolved"
    /\ capsule = ScenarioCapsule
    /\ collisions = <<WallA>>
    /\ argVelocity = Vec(0, 0, 5 * Scale)
    /\ resolved = Vec(0, 0, -pushFactor)

\* C6 as stated: for every set of overlapping boxes, the component of the
\* velocity tangential to each resolved contact normal is unchanged.
C6_TangentialEveryBox ==
    Returned =>
        \A i \in 1..Len(collisions) :
            LET n == PenetrationNormal(capsule, collisions[i])
            IN  Penetrating(capsule, collisions[i])
                => Tangential(resolved, n) = Tangential(argVelocity, n)

\* C6 amended: when exactly one box overlaps, the component of the velocity
\* tangential to that box's contact normal is unchanged; velocity (3,0,3) into
\* the wall of Scenario A keeps x = 3 and has |z| <= 0.01.
C6_TangentialSingleBox ==
    (Returned /\ Len(collisions) = 1) =>
        LET n == PenetrationNormal(capsule, collisions[1])
        IN  /\ Penetrating(capsule, collisions[1])
               => Tangential(resolved, n) = Tangential(argVelocity, n)
            /\ (capsule = ScenarioCapsule /\ collisions[1] = WallA
                    /\ argVelocity = Vec(3 * Scale, 0, 3 * Scale))
               => (resolved.x = 3 * Scale /\ Abs(resolved.z) <= pushFactor)

\* C6 witness: Scenario B has been resolved, x kept and z blocked.
C6_Witness ==
    /\ phase = "resolved"
    /\ capsule = ScenarioCapsule
    /\ collisions = <<WallA>>
    /\ argVelocity = Vec(3 * Scale, 0, 3 * Scale)
    /\ resolved = Vec(3 * Scale, 0, -pushFactor)

\* C7 as stated: resolving the already resolved velocity again changes
\* nothing, for every list of overlapping boxes.
C7_IdempotentEveryList ==
    phase = "again" => resolvedAgain = resolved

\* C7 amended: resolving the already resolved velocity again changes nothing
\* when at most one box overlaps.
C7_IdempotentSingleBox ==
    (phase = "again" /\ Len(collisions) <= 1) => resolvedAgain = resolved

\* C7 witness: one box, the first call changed the velocity, the second did not.
C7_Witness ==
    /\ phase = "again"
    /\ Len(collisions) = 1
    /\ resolved # argVelocity
    /\ resolvedAgain = resolved

\* Depth of the start sphere at p in a box, and the start endpoint after one
\* tick with velocity w when the capsule was built at the candidate position
\* reached with argVelocity (Player.update, dt = 1 / FIXED_TIMESTEP_HZ).
Depth(p, r, box) ==
    Max(0, r - Length(SubVectors(p, ClosestPoint(p, box))))
StartAfterTick(w) ==
    AddVectors(SubVectors(capsule.start,
                          MultiplyRatio(argVelocity, 1, FIXED_TIMESTEP_HZ)),
               MultiplyRatio(w, 1, FIXED_TIMESTEP_HZ))

PerBoxVelocity == ResolveEach(capsule, argVelocity, collisions, 1)
Stuck ==
    /\ Len(collisions) >= 2
    /\ PairLess(LengthSq(PerBoxVelocity), stuckThreshold)

\* C9 as stated: in the stuck situation the result is never (0,0,0).
C9_StuckNeverZero ==
    (Returned /\ Stuck) => resolved # Zero3

\* C9 amended: in the stuck situation, when the average of the unit directions
\* from the box centres to the start endpoint is not the zero vector, the
\* result is the per-box-corrected velocity plus a vector of length 0.05 along
\* that average; when the average is the zero vector the per-box-corrected
\* velocity is returned unchanged (and may be exactly (0,0,0)).
C9_StuckNudge ==
    (Returned /\ Stuck) =>
        LET avg == AvgPushDir(capsule, collisions, 1)
            nudge == SubVectors(resolved, PerBoxVelocity)
        IN  IF avg # Zero3
            THEN /\ nudge = MultiplyScalar(Normalize(avg), stuckPush)
                 /\ DotRaw(nudge, avg) > 0
                 /\ Abs(Length(nudge) - stuckPush) <= 1
            ELSE resolved = PerBoxVelocity

\* C9 witness: Scenario C, the capsule wedged in the corner of WallA and WallB
\* with velocity (3,0,3), got a non-zero result by the nudge.
C9_Witness ==
    /\ phase = "resolved"
    /\ collisions = <<WallA, WallB>>
    /\ argVelocity = Vec(3 * Scale, 0, 3 * Scale)
    /\ Stuck
    /\ resolved # PerBoxVelocity
    /\ resolved # Zero3

----------------------------------------------------------------------------
(* SpecPlayer: Player.update in the level Renderer.createTestGrid builds,  *)
(* ticked by GameLoop.fixedUpdate, with the keyboard changing in between.  *)

MaxUpdates == 112      \* ticks per behaviour
MaxKeyEvents == 2      \* keyboard changes per behaviour
KeyPeriod == 40        \* ticks a combination of keys is held at least

LevelColliders == GenerateWallColliders(WallInstances, tileSize)

\* Player's constructor: position (0, 0.9, -3).
PlayerStart == Vec(0, Fx(9, 10), -3 * Scale)

Overlapping(p, colliders) ==
    CheckCapsuleCollision(CreateCapsuleCollider(p), colliders)

InitPlayer ==
    /\ EcsAtRest
    /\ NoCall
    /\ NoLoop
    /\ NoInput
    /\ NoChain
    /\ NoAssets
    /\ staticColliders = LevelColliders
    /\ CollisionSystemReady
    /\ position = PlayerStart
    /\ velocity = Zero3
    /\ moveAxes = [x |-> 0, y |-> 0]
    /\ startClear = (Len(Overlapping(position, staticColliders)) = 0)
    /\ updates = 0
    /\ keyEvents = 0
    /\ clampStep = [before |-> Zero3, after |-> Zero3]

\* InputManager's keydown/keyup handlers followed by updateAxes.
KeyEvent ==
    /\ keyEvents < MaxKeyEvents
    /\ updates < MaxUpdates
    /\ updates % KeyPeriod = 0
    /\ updates >= keyEvents * KeyPeriod
    /\ \E right, left, up, down \in {0, 1} :
          /\ MovementAxes(right, left, up, down) # moveAxes
          /\ moveAxes' = MovementAxes(right, left, up, down)
    /\ keyEvents' = keyEvents + 1
    /\ UNCHANGED <<ecsVars, collisionVars, callVars, position, velocity,
                   startClear, updates, clampStep, loopVars, inputVars, chainVars, assetVars>>

\* GameLoop.fixedUpdate's call player.update(FIXED_TIMESTEP).
Update ==
    /\ updates < MaxUpdates
    /\ \E r \in {PlayerUpdate(position, velocity, moveAxes, staticColliders)} :
          /\ position' = r.position
          /\ velocity' = r.velocity
    /\ \E b \in {Damped(velocity, moveAxes)} :
          clampStep' = [before |-> b, after |-> ClampVelocity(b)]
    /\ updates' = updates + 1
    /\ UNCHANGED <<ecsVars, collisionVars, callVars, moveAxes, startClear,
                   keyEvents, loopVars, inputVars, chainVars, assetVars>>

NextPlayer == KeyEvent \/ Update

SpecPlayer == InitPlayer /\ [][NextPlayer]_vars

----------------------------------------------------------------------------
(* SpecRest: Player.update ticking with no key held, from rest, at         *)
(* positions along the north face of the divider wall (z = -0.5): clear of *)
(* it, touching it, and 0.005 inside the radius; between tiles and not.    *)

RestPositions ==
    {PlayerStart} \cup
    { Vec(k * (Scale \div 4), Fx(9, 10), -z) :
          k \in -4..10, z \in {Fx(95, 100), Fx(90, 100), Fx(895, 1000)} }

InitRest ==
    /\ EcsAtRest
    /\ NoCall
    /\ NoLoop
    /\ NoInput
    /\ NoChain
    /\ NoAssets
    /\ staticColliders = LevelColliders
    /\ CollisionSystemReady
    /\ position \in RestPositions
    /\ velocity = Zero3
    /\ moveAxes = [x |-> 0, y |-> 0]
    /\ startClear = (Len(Overlapping(position, staticColliders)) = 0)
    /\ updates = 0
    /\ keyEvents = 0
    /\ clampStep = [before |-> Zero3, after |-> Zero3]

SpecRest == InitRest /\ [][Update]_vars

----------------------------------------------------------------------------
(* SpecClamp: Player.update ticking from the start position with a held    *)
(* combination of keys and a velocity at, below and above maxSpeed.        *)

ClampSpeeds == {-20, 0, 15, 20}
ClampVelocities == { Vec(x * Scale, 0, z * Scale) : x, z \in ClampSpeeds }

InitClamp ==
    /\ EcsAtRest
    /\ NoCall
    /\ NoLoop
    /\ NoInput
    /\ NoChain
    /\ NoAssets
    /\ staticColliders = LevelColliders
    /\ CollisionSystemReady
    /\ position = PlayerStart
    /\ velocity \in ClampVelocities
    /\ \E right, left, up, down \in {0, 1} :
          moveAxes = MovementAxes(right, left, up, down)
    /\ startClear = (Len(Overlapping(position, staticColliders)) = 0)
    /\ updates = 0
    /\ keyEvents = 0
    /\ clampStep = [before |-> Zero3, after |-> Zero3]

SpecClamp == InitClamp /\ [][Update]_vars

----------------------------------------------------------------------------
(* Claims about the clamp step of Player.update (SpecClamp)                *)

\* One step of the unit-vector grid scaled by maxSpeed: the rounding of
\* normalize-then-scale in this arithmetic.
ClampTol == maxSpeed
DirTol == 1 + 1
Near(a, b, tol) == Abs(a - b) <= tol
NearVec(a, b, tol) ==
    Near(a.x, b.x, tol) /\ Near(a.y, b.y, tol) /\ Near(a.z, b.z, tol)
ClampFired == PairLess(SqPair(maxSpeed * Scale), LengthSq(clampStep.before))

\* C11: after the friction multiply and clamp of a Player.update tick, and
\* before collision correction, the velocity magnitude is at most maxSpeed;
\* when the clamp fires the velocity keeps its direction and its magnitude
\* becomes maxSpeed (up to the rounding of the arithmetic).
C11_ClampedSpeed ==
    updates > 0 =>
        /\ Length(clampStep.after) <= maxSpeed * Scale + ClampTol
        /\ ClampFired =>
              /\ Near(Length(clampStep.after), maxSpeed * Scale, ClampTol)
              /\ NearVec(Normalize(clampStep.after),
                         Normalize(clampStep.before), DirTol)

\* C11 witness: the clamp fired on a velocity of magnitude 20 along (4,0,3)
\* and left magnitude 15 along (4,0,3).
C11_Witness ==
    /\ updates > 0
    /\ ClampFired
    /\ clampStep.before = Vec(16 * Scale, 0, 12 * Scale)
    /\ clampStep.after = Vec(12 * Scale, 0, 9 * Scale)

----------------------------------------------------------------------------
(* Claims about Player.update (SpecPlayer)                                 *)

RECURSIVE DeepestOf(_, _, _)
DeepestOf(cap, boxes, i) ==
    IF i > Len(boxes) THEN 0
    ELSE Max(Max(Depth(cap.start, cap.radius, boxes[i]),
                 Depth(cap.end, cap.radius, boxes[i])),
             DeepestOf(cap, boxes, i + 1))

\* How far the capsule at p reaches into the static boxes.
Penetration(p) ==
    DeepestOf(CreateCapsuleCollider(p), Overlapping(p, staticColliders), 1)

\* A fifth of the push-out factor, 0.002: twenty steps of the position grid.
NegligibleEps == pushFactor \div 5

\* C3: a player that began clear of every static box never ends a tick with
\* its capsule reaching into a static box by more than a negligible epsilon.
C3_NeverInsideWall ==
    startClear => Penetration(position) <= NegligibleEps

AtRest == moveAxes = [x |-> 0, y |-> 0] /\ velocity = Zero3

\* C10 as stated: with zero axes and zero velocity, a Player.update tick
\* leaves the velocity (0,0,0) and the position unchanged, from any position.
C10_RestEverywhere ==
    [][(AtRest /\ updates' = updates + 1)
          => (velocity' = Zero3 /\ position' = position)]_vars

\* C10 amended: with zero axes and zero velocity, a Player.update tick leaves
\* the velocity (0,0,0) and the position unchanged when the capsule at the
\* position is within the radius of at most one static box.
C10_RestUnlessWedged ==
    [][(AtRest /\ updates' = updates + 1
            /\ Len(Overlapping(position, staticColliders)) <= 1)
          => (velocity' = Zero3 /\ position' = position)]_vars

\* C10 witness: two ticks passed at rest within the radius of one box.
C10_Witness ==
    /\ AtRest
    /\ updates >= 2
    /\ keyEvents = 0
    /\ Len(Overlapping(position, staticColliders)) = 1

----------------------------------------------------------------------------
(* Spec: the world wrapper of src/ecs/world.ts over bitecs, the systems     *)
(* and the pipeline initECS builds.  JavaScript runs one call to its end,  *)
(* so while a pipeline call is under way (pc # "idle") nothing else runs.  *)

MaxWorlds == 2      \* initWorld calls per behaviour
MaxPending == 2     \* length of entitiesToDelete
MaxTicks == 2       \* pipeline calls per behaviour

Components == {"Transform", "Velocity", "Collider", "Renderable"}
NoComponents == [e \in Eids |-> {}]

\* A bitecs query defined over the components in mask, on the current world.
Query(mask) == {e \in entities : mask \subseteq componentMask[e]}
movementQuery == Query({"Transform", "Velocity"})
collisionQuery == Query({"Transform", "Collider"})

RECURSIVE Range(_)
Range(list) ==
    IF Len(list) = 0 THEN {} ELSE {Head(list)} \cup Range(Tail(list))

\* initWorld: a new bitecs world replaces the current one.  The module-level
\* entitiesToDelete array and the global entity cursor are left as they are.
InitWorld ==
    /\ pc = "idle"
    /\ world < MaxWorlds
    /\ world' = world + 1
    /\ entities' = {}
    /\ componentMask' = NoComponents
    /\ called' = Call("initWorld", NoEntity)
    /\ thrown' = "none"
    /\ UNCHANGED <<entityCursor, entitiesToDelete, scheduledIn, Transform, Velocity, Collider,
                   pc, ran, ticks, purged, collisionVars, playerVars, callVars, loopVars, inputVars, chainVars, assetVars>>

\* resetWorld: world = null; entitiesToDelete.length = 0.
ResetWorld ==
    /\ pc = "idle"
    /\ world # 0
    /\ world' = 0
    /\ entities' = {}
    /\ componentMask' = NoComponents
    /\ entitiesToDelete' = <<>>
    /\ scheduledIn' = <<>>
    /\ called' = Call("resetWorld", NoEntity)
    /\ thrown' = "none"
    /\ UNCHANGED <<entityCursor, Transform, Velocity, Collider, pc, ran, ticks,
                   purged, collisionVars, playerVars, callVars, loopVars, inputVars, chainVars, assetVars>>

\* createEntity: addEntity(getWorld()); getWorld throws without a world.
CreateEntity ==
    /\ pc = "idle"
    /\ world # 0
    /\ entityCursor < MaxEntities
    /\ entities' = entities \cup {entityCursor}
    /\ entityCursor' = entityCursor + 1
    /\ called' = Call("createEntity", entityCursor)
    /\ thrown' = "none"
    /\ UNCHANGED <<world, entitiesToDelete, scheduledIn, componentMask, Transform, Velocity,
                   Collider, pc, ran, ticks, purged, collisionVars, playerVars,
                   callVars, loopVars, inputVars, chainVars, assetVars>>

\* createBasicEntity: createEntity(), then addTransform, whose call
\* addComponent(Transform, entity) passes no entity id to bitecs and throws:
\* the entity stays in the world without any component.
CreateBasicEntity ==
    /\ pc = "idle"
    /\ world # 0
    /\ entityCursor < MaxEntities
    /\ entities' = entities \cup {entityCursor}
    /\ entityCursor' = entityCursor + 1
    /\ componentMask' = [componentMask EXCEPT ![entityCursor] = {}]
    /\ called' = Call("createBasicEntity", entityCursor)
    /\ thrown' = "entity is undefined"
    /\ UNCHANGED <<world, entitiesToDelete, scheduledIn, Transform, Velocity, Collider, pc,
                   ran, ticks, purged, collisionVars, playerVars, callVars, loopVars, inputVars, chainVars, assetVars>>

\* addTransform, addVelocity, addCollider, addRenderable called on a handle:
\* each calls addComponent(Component, entity), bitecs throws on the missing
\* entity id before it touches a store, and the helper rethrows.
AddComponent(entity, component) ==
    /\ pc = "idle"
    /\ called' = Call("addComponent", entity)
    /\ thrown' = "entity is undefined"
    /\ UNCHANGED <<world, entities, entityCursor, entitiesToDelete, scheduledIn,
                   componentMask, Transform, Velocity, Collider, pc, ran, ticks,
                   purged, collisionVars, playerVars, callVars, loopVars, inputVars, chainVars, assetVars>>

\* Variant: the entity is removed at once instead of being listed.
ScheduleEntityForDeletionEager(entity) ==
    /\ pc = "idle"
    /\ Len(entitiesToDelete) < MaxPending
    /\ entities' = entities \ {entity}
    /\ componentMask' = [componentMask EXCEPT ![entity] = {}]
    /\ entitiesToDelete' = Append(entitiesToDelete, entity)
    /\ scheduledIn' = Append(scheduledIn, world)
    /\ called' = Call("scheduleEntityForDeletion", entity)
    /\ thrown' = "none"
    /\ UNCHANGED <<world, entityCursor, Transform, Velocity, Collider, pc, ran,
                   ticks, purged, collisionVars, playerVars, callVars, loopVars, inputVars, chainVars, assetVars>>

\* scheduleEntityForDeletion: entitiesToDelete.push(entity), for any number.
ScheduleEntityForDeletion(entity) ==
    /\ pc = "idle"
    /\ Len(entitiesToDelete) < MaxPending
    /\ entitiesToDelete' = Append(entitiesToDelete, entity)
    /\ scheduledIn' = Append(scheduledIn, world)
    /\ called' = Call("scheduleEntityForDeletion", entity)
    /\ thrown' = "none"
    /\ UNCHANGED <<world, entities, entityCursor, componentMask, Transform,
                   Velocity, Collider, pc, ran, ticks, purged, collisionVars,
                   playerVars, callVars, loopVars, inputVars, chainVars, assetVars>>

\* Variant: the entities are removed but the list is not emptied.
DeletionsProcessedKeepList ==
    /\ entities' = entities \ Range(entitiesToDelete)
    /\ componentMask' = [e \in Eids |->
           IF e \in Range(entitiesToDelete) THEN {} ELSE componentMask[e]]
    /\ purged' = purged \cup (entities \cap Range(entitiesToDelete))
    /\ entitiesToDelete' = entitiesToDelete
    /\ scheduledIn' = scheduledIn

\* The effect of processEntityDeletions on a world: removeEntity for each
\* listed id (bitecs ignores an id that is not in the world), then
\* entitiesToDelete.length = 0.
DeletionsProcessed ==
    /\ entities' = entities \ Range(entitiesToDelete)
    /\ componentMask' = [e \in Eids |->
           IF e \in Range(entitiesToDelete) THEN {} ELSE componentMask[e]]
    /\ purged' = purged \cup (entities \cap Range(entitiesToDelete))
    /\ entitiesToDelete' = <<>>
    /\ scheduledIn' = <<>>

\* processEntityDeletions called on its own; getWorld throws without a world.
ProcessEntityDeletions ==
    /\ pc = "idle"
    /\ world # 0
    /\ DeletionsProcessed
    /\ called' = Call("processEntityDeletions", NoEntity)
    /\ thrown' = "none"
    /\ UNCHANGED <<world, entityCursor, Transform, Velocity, Collider, pc, ran,
                   ticks, collisionVars, playerVars, callVars, loopVars, inputVars, chainVars, assetVars>>

\* Variant: only entities that also have a Collider are moved.
MovementSystemCollidersOnly(T, V, es) ==
    [e \in Eids |->
        IF e \in es /\ "Collider" \in componentMask[e]
        THEN [T[e] EXCEPT !.x = @ + RDiv(V[e].dx, FIXED_TIMESTEP_HZ),
                          !.y = @ + RDiv(V[e].dy, FIXED_TIMESTEP_HZ),
                          !.z = @ + RDiv(V[e].dz, FIXED_TIMESTEP_HZ)]
        ELSE T[e]]

\* movementSystem: Transform += Velocity * dt for the entities of its query.
MovementSystem(T, V, es) ==
    [e \in Eids |->
        IF e \in es
        THEN [T[e] EXCEPT !.x = @ + RDiv(V[e].dx, FIXED_TIMESTEP_HZ),
                          !.y = @ + RDiv(V[e].dy, FIXED_TIMESTEP_HZ),
                          !.z = @ + RDiv(V[e].dz, FIXED_TIMESTEP_HZ)]
        ELSE T[e]]

STATIC == 1

\* collisionSystem for one entity: the new Velocity record.
CollideEntity(T, V, C, colliders) ==
    LET cap == [start |-> Vec(T.x, T.y - C.height \div 2 + C.radius, T.z),
                end |-> Vec(T.x, T.y + C.height \div 2 - C.radius, T.z),
                radius |-> C.radius]
        hit == CheckCapsuleCollision(cap, colliders)
        newVelocity == ResolveCollisions(cap, Vec(V.dx, V.dy, V.dz), hit)
    IN  IF C.flags % (2 * STATIC) >= STATIC THEN V
        ELSE IF V.dx = 0 /\ V.dy = 0 /\ V.dz = 0 THEN V
        ELSE IF Len(hit) > 0
             THEN [dx |-> newVelocity.x, dy |-> newVelocity.y,
                   dz |-> newVelocity.z]
             ELSE V

CollisionSystem(T, V, C, es, colliders) ==
    [e \in Eids |->
        IF e \in es THEN CollideEntity(T[e], V[e], C[e], colliders) ELSE V[e]]

\* The pipeline of initECS, [movementSystem, collisionSystem], called by
\* updateECS with getWorld(): first system.
PipelineMovementSystem ==
    /\ pc = "idle"
    /\ world # 0
    /\ ticks < MaxTicks
    /\ ticks' = ticks + 1
    /\ Transform' = MovementSystem(Transform, Velocity, movementQuery)
    /\ ran' = <<"movementSystem">>
    /\ pc' = "collisionSystem"
    /\ called' = Call("pipeline", NoEntity)
    /\ thrown' = "none"
    /\ UNCHANGED <<world, entities, entityCursor, entitiesToDelete, scheduledIn,
                   componentMask, Velocity, Collider, purged, collisionVars,
                   playerVars, callVars, loopVars, inputVars, chainVars, assetVars>>

\* second system; its getCollisionSystem() throws when initCollisionSystem
\* has not been called, and the error leaves the pipeline function.
PipelineCollisionSystem ==
    /\ pc = "collisionSystem"
    /\ IF collisionSystemInstance
       THEN /\ Velocity' = CollisionSystem(Transform, Velocity, Collider,
                                           collisionQuery, staticColliders)
            /\ ran' = Append(ran, "collisionSystem")
            /\ pc' = "processEntityDeletions"
            /\ thrown' = "none"
       ELSE /\ UNCHANGED <<Velocity, ran>>
            /\ pc' = "idle"
            /\ thrown' = "Collision system not initialized"
    /\ called' = Call("pipeline", NoEntity)
    /\ UNCHANGED <<world, entities, entityCursor, entitiesToDelete, scheduledIn,
                   componentMask, Transform, Collider, ticks, purged,
                   collisionVars, playerVars, callVars, loopVars, inputVars, chainVars, assetVars>>

\* the closing processEntityDeletions(), after which the pipeline returns
PipelineProcessEntityDeletions ==
    /\ pc = "processEntityDeletions"
    /\ DeletionsProcessed
    /\ ran' = Append(ran, "processEntityDeletions")
    /\ pc' = "idle"
    /\ called' = Call("pipeline", NoEntity)
    /\ thrown' = "none"
    /\ UNCHANGED <<world, entityCursor, Transform, Velocity, Collider, ticks,
                   collisionVars, playerVars, callVars, loopVars, inputVars, chainVars, assetVars>>

Init ==
    /\ EcsAtRest
    /\ NoCall
    /\ NoLoop
    /\ NoInput
    /\ NoChain
    /\ NoAssets
    /\ NoPlayer
    /\ staticColliders = LevelColliders
    /\ CollisionSystemReady

Next ==
    \/ InitWorld
    \/ ResetWorld
    \/ CreateEntity
    \/ CreateBasicEntity
    \/ \E entity \in Eids, component \in Components : AddComponent(entity, component)
    \/ \E entity \in Eids : ScheduleEntityForDeletion(entity)
    \/ ProcessEntityDeletions
    \/ PipelineMovementSystem
    \/ PipelineCollisionSystem
    \/ PipelineProcessEntityDeletions

Spec == Init /\ [][Next]_vars

----------------------------------------------------------------------------
(* Claims about the world wrapper and the pipeline (Spec)                  *)

Scheduled == Range(entitiesToDelete)
Yielded(h) == \A mask \in SUBSET Components :
                  (mask \subseteq componentMask[h]) => h \in Query(mask)

FullRun == <<"movementSystem", "collisionSystem", "processEntityDeletions">>
IsPrefix(a, b) == Len(a) <= Len(b) /\ a = SubSeq(b, 1, Len(a))

\* C2: a pipeline call runs movementSystem, collisionSystem and then
\* processEntityDeletions, each once and in this order; within one world an
\* entity leaves only in a step of processEntityDeletions, never between two
\* systems; and when the pipeline returns the pending list is empty.
C2_PipelineOrder ==
    /\ [](IsPrefix(ran, FullRun) /\ (pc = "idle" => ran \in {<<>>, FullRun}))
    /\ [][/\ (pc # "idle" /\ pc' = "idle")
             => (ran' = FullRun /\ entitiesToDelete' = <<>>)
          /\ (pc' # "idle") => entities' = entities
          /\ (world' = world /\ ~(entities \subseteq entities'))
             => (entitiesToDelete' = <<>> /\ purged' # purged
                 /\ pc' = "idle")]_vars

\* C2 witness: a pipeline call has returned after purging a listed entity.
C2_Witness ==
    /\ pc = "idle"
    /\ ran = FullRun
    /\ purged # {}
    /\ entitiesToDelete = <<>>
    /\ entities # {}

\* C28: handles scheduled for deletion are not carried over by initWorld:
\* every entity that leaves the current world in a step of
\* processEntityDeletions has an entry in the pending list that was pushed
\* while this world was the current one.
C28_NoCarryOver ==
    [][world' = world =>
          \A e \in entities \ entities' :
              \E i \in DOMAIN entitiesToDelete :
                  entitiesToDelete[i] = e /\ scheduledIn[i] = world]_vars

StoresUnchanged ==
    UNCHANGED <<componentMask, Transform, Velocity, Collider, entitiesToDelete>>

\* C13 as stated: a call given a handle that is not in the world (never
\* created, or purged) raises an error and leaves the component stores and
\* the pending list as they were; a call given a handle that is in the world
\* and listed for deletion returns normally.
C13_InvalidHandleRejected ==
    [][\A h \in Eids :
          (called'.entity = h /\ called'.op \notin {"createEntity",
                                                    "createBasicEntity"})
          => /\ (h \notin entities) => (thrown' # "none" /\ StoresUnchanged)
             /\ (h \in entities /\ h \in Scheduled) => thrown' = "none"]_vars

----------------------------------------------------------------------------
(* SpecFault: the same calls on the world wrapper, begun before            *)
(* initCollisionSystem has been called.                                    *)

InitFault ==
    /\ EcsAtRest
    /\ NoCall
    /\ NoLoop
    /\ NoInput
    /\ NoChain
    /\ NoAssets
    /\ NoPlayer
    /\ collisionSystemInstance = FALSE
    /\ staticColliders = <<>>
    /\ showColliders = FALSE
    /\ debugMeshes = <<>>
    /\ generations = 0

\* initCollisionSystem: new CollisionSystem() unless there is one.
InitCollisionSystem ==
    /\ pc = "idle"
    /\ ~collisionSystemInstance
    /\ collisionSystemInstance' = TRUE
    /\ staticColliders' = <<>>
    /\ UNCHANGED <<ecsVars, showColliders, debugMeshes, generations,
                   playerVars, callVars, loopVars, inputVars, chainVars, assetVars>>

NextFault == Next \/ InitCollisionSystem

SpecFault == InitFault /\ [][NextFault]_vars

----------------------------------------------------------------------------
(* SpecGame: level load and play.  generateWallColliders builds the static *)
(* list from the wall instances of Renderer.createTestGrid; then fixed     *)
(* updates run, each Player.update followed by the ECS pipeline, over a    *)
(* world whose three entities carry components; the C key toggles the      *)
(* collider view.                                                          *)

MaxGenerations == 2    \* generateWallColliders calls per behaviour

\* Next to the north face of the divider tile at x = 2 (the face is z = -0.5).
BesideWall == Vec(2 * Scale, Fx(9, 10), 0 - Fx(905, 1000))
GameVelocities ==
    { [dx |-> 0, dy |-> 0, dz |-> 0], [dx |-> Scale, dy |-> 0, dz |-> 3 * Scale] }
OBSTACLE == 8

\* Entity 0 has Transform and Velocity only; entity 1 also a Collider like the
\* player's; entity 2 is an obstacle with the STATIC flag, with or without a
\* Velocity.
InitGame ==
    /\ world = 1
    /\ entities = Eids
    /\ entityCursor = MaxEntities
    /\ entitiesToDelete = <<>>
    /\ \E staticMask \in {{"Transform", "Collider"},
                          {"Transform", "Velocity", "Collider"}} :
          componentMask = [e \in Eids |->
              IF e = 0 THEN {"Transform", "Velocity"}
              ELSE IF e = 1 THEN {"Transform", "Velocity", "Collider"}
              ELSE staticMask]
    /\ Transform = [e \in Eids |->
          IF e = 2 THEN [x |-> -3 * Scale, y |-> Fx(1, 2), z |-> -3 * Scale,
                         rotY |-> 0]
          ELSE [x |-> BesideWall.x, y |-> BesideWall.y, z |-> BesideWall.z,
                rotY |-> 0]]
    /\ Velocity \in [Eids -> GameVelocities]
    /\ \A e \in Eids :
          ("Velocity" \notin componentMask[e]) => Velocity[e].dx = 0 /\ Velocity[e].dz = 0
    /\ Collider = [e \in Eids |->
          IF e = 0 THEN [radius |-> 0, height |-> 0, flags |-> 0]
          ELSE IF e = 1 THEN [radius |-> radius, height |-> height, flags |-> 0]
          ELSE [radius |-> Fx(1, 2), height |-> 0, flags |-> STATIC + OBSTACLE]]
    /\ pc = "idle"
    /\ ran = <<>>
    /\ ticks = 0
    /\ purged = {}
    /\ scheduledIn = <<>>
    /\ called = Call("none", NoEntity)
    /\ thrown = "none"
    /\ NoCall
    /\ NoLoop
    /\ NoInput
    /\ NoChain
    /\ NoAssets
    /\ collisionSystemInstance = TRUE
    /\ staticColliders = <<>>
    /\ showColliders = FALSE
    /\ debugMeshes = <<>>
    /\ generations = 0
    /\ position \in {PlayerStart, BesideWall}
    /\ velocity = Zero3
    /\ moveAxes \in {MovementAxes(0, 0, 0, 0), MovementAxes(0, 0, 0, 1)}
    /\ startClear = TRUE
    /\ updates = 0
    /\ keyEvents = 0
    /\ clampStep = [before |-> Zero3, after |-> Zero3]

BetweenTicks == pc = "idle" /\ updates = ticks

\* initGameEngine's collisionSystem.generateWallColliders(wallInstances, size)
LoadLevel ==
    /\ BetweenTicks
    /\ generations < MaxGenerations
    /\ staticColliders' = GenerateWallColliders(WallInstances, tileSize)
    /\ generations' = generations + 1
    /\ UNCHANGED <<ecsVars, collisionSystemInstance, showColliders, debugMeshes,
                   playerVars, callVars, loopVars, inputVars, chainVars, assetVars>>

\* The mesh createDebugVisualization adds for one collider.
DebugMesh(collider) ==
    [position |-> BoxCenter(collider),
     size |-> SubVectors(collider.max, collider.min)]

\* Variant: the centre of each box is computed in its min corner.
ToggleColliderViewInPlace ==
    /\ BetweenTicks
    /\ generations > 0
    /\ showColliders' = ~showColliders
    /\ debugMeshes' = <<>>
    /\ staticColliders' = [i \in 1..Len(staticColliders) |->
          AABB(BoxCenter(staticColliders[i]), staticColliders[i].max)]
    /\ UNCHANGED <<ecsVars, collisionSystemInstance, generations, playerVars,
                   callVars, loopVars, inputVars, chainVars, assetVars>>

\* The C key: showColliders = !showColliders, then createDebugVisualization
\* (which first removes the meshes there are) or removeDebugVisualization.
ToggleColliderView ==
    /\ BetweenTicks
    /\ generations > 0
    /\ showColliders' = ~showColliders
    /\ debugMeshes' = IF ~showColliders
                      THEN [i \in 1..Len(staticColliders) |->
                               DebugMesh(staticColliders[i])]
                      ELSE <<>>
    /\ UNCHANGED <<ecsVars, collisionSystemInstance, staticColliders,
                   generations, playerVars, callVars, loopVars, inputVars, chainVars, assetVars>>

\* fixedUpdate: player.update(dt) ...
GameUpdate == BetweenTicks /\ generations > 0 /\ ticks < MaxTicks /\ Update
\* ... then updateECS(dt), which calls the pipeline.
GamePipeline == generations > 0 /\ updates = ticks + 1 /\ PipelineMovementSystem

NextGame ==
    \/ LoadLevel
    \/ ToggleColliderView
    \/ GameUpdate
    \/ GamePipeline
    \/ PipelineCollisionSystem
    \/ PipelineProcessEntityDeletions

SpecGame == InitGame /\ [][NextGame]_vars

----------------------------------------------------------------------------
(* Claims about the systems, the static list and the level (SpecGame)      *)

Has(e, mask) == e \in entities /\ mask \subseteq componentMask[e]
Moving(e) == Velocity[e].dx # 0 \/ Velocity[e].dy # 0 \/ Velocity[e].dz # 0
\* The transform t carried along the velocity v for one fixed timestep.
Advanced(t, v) ==
    [x |-> t.x + RDiv(v.dx, FIXED_TIMESTEP_HZ),
     y |-> t.y + RDiv(v.dy, FIXED_TIMESTEP_HZ),
     z |-> t.z + RDiv(v.dz, FIXED_TIMESTEP_HZ),
     rotY |-> t.rotY]
MovementRan == pc = "idle" /\ pc' = "collisionSystem"

\* C15: an entity with Transform and Velocity but no Collider is advanced by
\* velocity * dt in every tick, no step of the pipeline raises an error,
\* its velocity is never corrected, and in the same tick every other entity
\* with Transform and Velocity is advanced too and the pipeline runs to its
\* end.
C15_NoColliderMovesFreely ==
    [][\A e \in Eids :
          (Has(e, {"Transform", "Velocity"}) /\ "Collider" \notin componentMask[e])
          => /\ called'.op = "pipeline" => thrown' = "none"
             /\ Velocity'[e] = Velocity[e]
             /\ IF MovementRan
                THEN \A o \in Eids :
                        Has(o, {"Transform", "Velocity"})
                        => Transform'[o] = Advanced(Transform[o], Velocity[o])
                ELSE Transform'[e] = Transform[e]
             /\ (pc # "idle" /\ pc' = "idle") => ran' = FullRun]_vars

\* C15 witness: after a tick the entity without Collider has moved on with
\* its velocity, while the entity with a Collider at the same place has had
\* its velocity corrected at the wall.
C15_Witness ==
    /\ pc = "idle"
    /\ ran = FullRun
    /\ "Collider" \notin componentMask[0]
    /\ Velocity[0] = [dx |-> Scale, dy |-> 0, dz |-> 3 * Scale]
    /\ Transform[0].z = BesideWall.z + ticks * RDiv(3 * Scale, FIXED_TIMESTEP_HZ)
    /\ Velocity[1].dx = Scale
    /\ Velocity[1].dz < 0

IsStatic(e) ==
    Has(e, {"Transform", "Collider"}) /\ Collider[e].flags % (2 * STATIC) >= STATIC

\* C16 as stated: no step changes the Transform of an entity whose Collider
\* has the STATIC flag, whatever other components it has.
C16_StaticNeverMoves ==
    [][\A e \in Eids : IsStatic(e) => Transform'[e] = Transform[e]]_vars

\* C17: once generateWallColliders has built the static list, every step
\* other than another generateWallColliders call (Player.update with its
\* checkCapsuleCollision and resolveCollisions, the ECS systems, showing and
\* hiding the collider view) leaves the list as it is: same boxes, same
\* order, same corners.
C17_StaticListFixed ==
    [][(generations > 0 /\ generations' = generations)
          => staticColliders' = staticColliders]_vars

\* C17 witness: the list is still the generated one after the player's
\* velocity has been corrected at a wall, the pipeline has corrected an
\* entity, and the collider view is on.
C17_Witness ==
    /\ generations = 1
    /\ staticColliders = LevelColliders
    /\ pc = "idle"
    /\ ticks > 0
    /\ moveAxes.y < 0
    /\ velocity.z < 0
    /\ Velocity[1].dx = Scale
    /\ Velocity[1].dz < 0
    /\ showColliders
    /\ Len(debugMeshes) = Len(staticColliders)

\* The box the claim gives a tile centred at p.
TileBox(p) ==
    AABB(Vec(p.x - tileSize \div 2, p.y - Fx(1, 2), p.z - tileSize \div 2),
         Vec(p.x + tileSize \div 2, p.y + Fx(1, 2), p.z + tileSize \div 2))
BoxesOf(p) == {i \in DOMAIN staticColliders : staticColliders[i] = TileBox(p)}

\* C18 as stated: after generateWallColliders (called once or again) the
\* static list holds exactly one box for every wall tile the level builder
\* placed, spanning the tile, and no other box.
C18_OneBoxPerTile ==
    generations > 0 =>
        /\ \A k \in DOMAIN PlacedWalls : Cardinality(BoxesOf(PlacedWalls[k])) = 1
        /\ \A i \in DOMAIN staticColliders :
              \E k \in DOMAIN PlacedWalls : staticColliders[i] = TileBox(PlacedWalls[k])
        /\ Len(staticColliders) = Len(PlacedWalls)

\* The transform t taken back along the velocity v for one fixed timestep.
Retreated(t, v) ==
    [x |-> t.x - RDiv(v.dx, FIXED_TIMESTEP_HZ),
     y |-> t.y - RDiv(v.dy, FIXED_TIMESTEP_HZ),
     z |-> t.z - RDiv(v.dz, FIXED_TIMESTEP_HZ),
     rotY |-> t.rotY]
PlayerTicked == updates' = updates + 1
CollisionRan == pc = "collisionSystem" /\ pc' = "processEntityDeletions"
Dynamic(e) ==
    /\ Has(e, {"Transform", "Velocity", "Collider"})
    /\ Collider[e].flags % (2 * STATIC) < STATIC

\* The Player.update half of C22: the position written is the old position
\* plus dt times the velocity the tick ends with, and that velocity is the
\* resolver's output for the capsule at the candidate position when the
\* candidate overlaps a static box, and the clamped velocity otherwise.
PlayerCommitsResolved ==
    PlayerTicked =>
        /\ position' = NextPosition(position, velocity')
        /\ \E hit \in {CheckCapsuleCollision(
                           CreateCapsuleCollider(
                               NextPosition(position, clampStep'.after)),
                           staticColliders)} :
              velocity' = IF Len(hit) > 0
                          THEN ResolveCollisions(
                                   CreateCapsuleCollider(
                                       NextPosition(position, clampStep'.after)),
                                   clampStep'.after, hit)
                          ELSE clampStep'.after

\* The pipeline half of C22: when collisionSystem has run, the position
\* movementSystem wrote in this tick for a dynamic entity is the old position
\* plus dt times the velocity collisionSystem leaves.
PipelineCommitsResolved ==
    CollisionRan =>
        \A e \in Eids :
            Dynamic(e) =>
                Transform'[e] =
                    Advanced(Retreated(Transform[e], Velocity[e]), Velocity'[e])

\* C22: in every tick the position committed for a dynamic actor is the old
\* position plus dt times the final velocity, the final velocity being the
\* resolver's output at the candidate position when the candidate overlaps a
\* static box and the clamped velocity otherwise, in Player.update and in the
\* pipeline of movementSystem and collisionSystem.
C22_CommitAfterResolve ==
    [][PlayerCommitsResolved /\ PipelineCommitsResolved]_vars

C22_PlayerHalf == [][PlayerCommitsResolved]_vars

----------------------------------------------------------------------------
(* SpecLoop: GameLoop.gameLoop.  Time is counted in quarters of a fixed     *)
(* timestep (1/240 s).  The browser holds either the timer gameLoop set or  *)
(* the animation frame the timer's callback requested.                     *)

TimeScale == 4 * FIXED_TIMESTEP_HZ
FIXED_TIMESTEP == TimeScale \div FIXED_TIMESTEP_HZ
MAX_FRAME_TIME == TimeScale \div 4

MaxClock == 100      \* latest timestamp a frame reads
\* Time between lastTime and the timestamp a frame reads: short frames, whole
\* timesteps, frames at the ceiling and stalls beyond it.
FrameGaps == {1, 3, 4, 5, 9, MAX_FRAME_TIME - 1, MAX_FRAME_TIME,
              MAX_FRAME_TIME + 1, MAX_FRAME_TIME + 7}

\* The state initGameEngine leaves: colliders generated, the player built,
\* the world of initECS holding the player entity and the first obstacle
\* entity (both without components), isRunning set, a frame requested.
InitLoop ==
    /\ world = 1
    /\ entities = {0, 1}
    /\ entityCursor = 2
    /\ entitiesToDelete = <<>>
    /\ componentMask = NoComponents
    /\ Transform = [e \in Eids |-> [x |-> 0, y |-> 0, z |-> 0, rotY |-> 0]]
    /\ Velocity = [e \in Eids |-> [dx |-> 0, dy |-> 0, dz |-> 0]]
    /\ Collider = [e \in Eids |-> [radius |-> 0, height |-> 0, flags |-> 0]]
    /\ pc = "idle"
    /\ ran = <<>>
    /\ ticks = 0
    /\ purged = {}
    /\ scheduledIn = <<>>
    /\ called = Call("none", NoEntity)
    /\ thrown = "none"
    /\ NoCall
    /\ staticColliders = LevelColliders
    /\ CollisionSystemReady
    /\ position = PlayerStart
    /\ velocity = Zero3
    /\ moveAxes = [x |-> 0, y |-> 0]
    /\ startClear = (Len(Overlapping(position, staticColliders)) = 0)
    /\ updates = 0
    /\ keyEvents = 0
    /\ clampStep = [before |-> Zero3, after |-> Zero3]
    /\ isRunning = TRUE
    /\ lastTime = 0
    /\ accumulator = 0
    /\ pending = "frame"
    /\ frameTicks = 0
    /\ discarded = 0
    /\ NoInput
    /\ NoChain
    /\ NoAssets

\* deltaTime without the ceiling.
DeltaTimeUncapped(now, last) == now - last

\* const deltaTime = Math.min(now - lastTime, MAX_FRAME_TIME)
DeltaTime(now, last) == Min(now - last, MAX_FRAME_TIME)

\* n calls of player.update: the player before the last one, and after it.
\* (Comparing s with itself has it computed before the next call is made.)
RECURSIVE PlayerTicks(_, _)
PlayerTicks(n, s) ==
    IF n = 0 \/ s # s THEN s
    ELSE PlayerTicks(n - 1,
            PlayerUpdate(s.position, s.velocity, moveAxes, staticColliders))

\* One call of the pipeline on the stores s = [T, V], for the entities es.
QueryOf(es, mask) == {e \in es : mask \subseteq componentMask[e]}
EcsMoved(T, V, es) ==
    [T |-> T,
     V |-> CollisionSystem(T, V, Collider, QueryOf(es, {"Transform", "Collider"}),
                           staticColliders)]
EcsTick(s, es) ==
    EcsMoved(MovementSystem(s.T, s.V, QueryOf(es, {"Transform", "Velocity"})),
             s.V, es)
RECURSIVE EcsTicks(_, _, _)
EcsTicks(n, s, es) ==
    IF n = 0 \/ s # s THEN s
    ELSE EcsTicks(n - 1, EcsTick(s, es), es \ Range(entitiesToDelete))

\* n calls of fixedUpdate(FIXED_TIMESTEP): player.update, then updateECS.
FixedUpdates(n) ==
    /\ updates' = updates + n
    /\ ticks' = ticks + n
    /\ IF n = 0
       THEN UNCHANGED <<position, velocity, clampStep, entities, componentMask,
                        purged, entitiesToDelete, scheduledIn, Transform, Velocity, ran>>
       ELSE /\ \E s \in {PlayerTicks(n - 1, [position |-> position,
                                             velocity |-> velocity])} :
                 /\ \E r \in {PlayerUpdate(s.position, s.velocity, moveAxes,
                                           staticColliders)} :
                       /\ position' = r.position
                       /\ velocity' = r.velocity
                 /\ \E b \in {Damped(s.velocity, moveAxes)} :
                       clampStep' = [before |-> b, after |-> ClampVelocity(b)]
            /\ \E s \in {EcsTicks(n, [T |-> Transform, V |-> Velocity], entities)} :
                 /\ Transform' = s.T
                 /\ Velocity' = s.V
            /\ DeletionsProcessed
            /\ ran' = FullRun

\* gameLoop's accumulation and its loop of fixed updates, given deltaTime.
RunFrame(deltaTime) ==
    /\ accumulator' = (accumulator + deltaTime) % FIXED_TIMESTEP
    /\ frameTicks' = (accumulator + deltaTime) \div FIXED_TIMESTEP
    /\ FixedUpdates((accumulator + deltaTime) \div FIXED_TIMESTEP)

\* gameLoop called by the browser for the animation frame requested.  With
\* isRunning false it returns at once; otherwise it sets the timer for the
\* next frame, reads the time and runs the fixed updates.
GameLoop ==
    /\ pending = "frame"
    /\ IF ~isRunning
       THEN /\ pending' = "none"
            /\ UNCHANGED <<ecsVars, position, velocity, updates, clampStep,
                           lastTime, accumulator, frameTicks, discarded>>
       ELSE \E gap \in FrameGaps :
            /\ lastTime + gap <= MaxClock
            /\ pending' = "timer"
            /\ lastTime' = lastTime + gap
            /\ discarded' = discarded + Max(0, gap - MAX_FRAME_TIME)
            /\ RunFrame(DeltaTime(lastTime + gap, lastTime))
            /\ UNCHANGED <<world, entityCursor, Collider, pc, called, thrown>>
    /\ UNCHANGED <<collisionVars, callVars, moveAxes, startClear, keyEvents,
                   isRunning, inputVars, chainVars, assetVars>>

\* The timer's callback: if (isRunning) requestAnimationFrame(gameLoop).
FrameTimer ==
    /\ pending = "timer"
    /\ pending' = IF isRunning THEN "frame" ELSE "none"
    /\ UNCHANGED <<ecsVars, collisionVars, playerVars, callVars, isRunning,
                   lastTime, accumulator, frameTicks, discarded, inputVars, chainVars, assetVars>>

\* The P key: isRunning = !isRunning; if (isRunning) resumeGame(), and
\* resumeGame does nothing when isRunning is already true.
PauseKey ==
    /\ isRunning' = ~isRunning
    /\ UNCHANGED <<ecsVars, collisionVars, playerVars, callVars, lastTime,
                   accumulator, pending, frameTicks, discarded, inputVars, chainVars, assetVars>>

NextLoop == GameLoop \/ FrameTimer \/ PauseKey

SpecLoop == InitLoop /\ [][NextLoop]_vars

----------------------------------------------------------------------------
(* Claims about the game loop (SpecLoop)                                   *)

FrameRan == lastTime' # lastTime

\* C12: a frame adds min(now - lastTime, MAX_FRAME_TIME) to the accumulator
\* and calls fixedUpdate once per whole FIXED_TIMESTEP in it, leaving
\* 0 <= accumulator < FIXED_TIMESTEP; so a frame runs at most
\* MAX_FRAME_TIME / FIXED_TIMESTEP ticks, and the simulated time plus the
\* accumulator always equals the elapsed time less the time beyond the
\* ceiling, which no later frame simulates.
C12_FixedTimestepFrames ==
    /\ [][FrameRan =>
            /\ accumulator' + frameTicks' * FIXED_TIMESTEP
                   = accumulator + Min(lastTime' - lastTime, MAX_FRAME_TIME)
            /\ updates' = updates + frameTicks'
            /\ frameTicks' <= MAX_FRAME_TIME \div FIXED_TIMESTEP]_vars
    /\ [](/\ 0 <= accumulator
          /\ accumulator < FIXED_TIMESTEP
          /\ updates * FIXED_TIMESTEP + accumulator = lastTime - discarded)

\* C12 witness: after a frame of no tick and a stalled frame of fifteen
\* ticks, a later frame has run several ticks.
C12_Witness ==
    /\ discarded > 0
    /\ updates > MAX_FRAME_TIME \div FIXED_TIMESTEP + 1
    /\ frameTicks \in 2..4
    /\ accumulator > 0


(***************************************************************************)
(* InputManager                                                            *)
(* Keyboard, mouse and blur events arrive from the browser; `held` is what *)
(* is physically down, which the manager only knows through the events.   *)

\* The keys followed: two keys of one action, three further movement keys, the
\* key that shares its action with the left mouse button, and a key the key
\* map does not have.
InputKeys == {"w", "arrowup", "s", "a", "d", " ", "x"}
MouseButtons == {"button0", "button2"}
MaxHeld == 2

keyMap(key) ==
    CASE key \in {"w", "arrowup"} -> "MOVE_UP"
      [] key = "s" -> "MOVE_DOWN"
      [] key = "a" -> "MOVE_LEFT"
      [] key = "d" -> "MOVE_RIGHT"
      [] key = " " -> "PRIMARY_ACTION"
      [] OTHER -> "none"

\* handleMouseDown / handleMouseUp: button 0 is the primary action, button 2
\* the secondary one.
buttonMap(button) ==
    IF button = "button0" THEN "PRIMARY_ACTION" ELSE "SECONDARY_ACTION"

isActionActive(state, action) == state[action] = "true"

setActionStateActivateOnly(state, action, isActive) ==
    IF isActive THEN [state EXCEPT ![action] = "true"] ELSE state

setActionState(state, action, isActive) ==
    [state EXCEPT ![action] = IF isActive THEN "true" ELSE "false"]

\* The two eventBus.emit calls of setActionState, made when the stored state
\* differs (!==) from the one asked for; an undefined state differs from both.
Emitted(bus, state, action, isActive) ==
    IF state[action] # (IF isActive THEN "true" ELSE "false")
    THEN [bus EXCEPT ![action] =
             [prev |-> bus[action].last,
              last |-> IF isActive THEN "pressed" ELSE "released"]]
    ELSE bus

updateAxesUnscaled(state) ==
    [x |-> ((IF isActionActive(state, "MOVE_RIGHT") THEN 1 ELSE 0)
            - (IF isActionActive(state, "MOVE_LEFT") THEN 1 ELSE 0)) * Scale,
     y |-> ((IF isActionActive(state, "MOVE_UP") THEN 1 ELSE 0)
            - (IF isActionActive(state, "MOVE_DOWN") THEN 1 ELSE 0)) * Scale]

updateAxes(state) ==
    MovementAxes(IF isActionActive(state, "MOVE_RIGHT") THEN 1 ELSE 0,
                 IF isActionActive(state, "MOVE_LEFT") THEN 1 ELSE 0,
                 IF isActionActive(state, "MOVE_UP") THEN 1 ELSE 0,
                 IF isActionActive(state, "MOVE_DOWN") THEN 1 ELSE 0)

InputEvent(type, input, recorded) ==
    [type |-> type, input |-> input, recorded |-> recorded]

CanPress(input) == input \in held \/ Cardinality(held) < MaxHeld

InitInput ==
    /\ EcsAtRest
    /\ staticColliders = <<>>
    /\ CollisionSystemReady
    /\ NoPlayer
    /\ NoCall
    /\ NoLoop
    /\ NoInput
    /\ NoChain
    /\ NoAssets

\* handleKeyDown; a key that stays down repeats its keydown.
handleKeyDown(key) ==
    /\ CanPress(key)
    /\ held' = held \cup {key}
    /\ keyState' = keyState \cup {key}
    /\ \E state \in {IF keyMap(key) # "none"
                     THEN setActionState(actionState, keyMap(key), TRUE)
                     ELSE actionState} :
          /\ actionState' = state
          /\ axes' = updateAxes(state)
    /\ emitted' = IF keyMap(key) # "none"
                  THEN Emitted(emitted, actionState, keyMap(key), TRUE)
                  ELSE emitted
    /\ lastEvent' = InputEvent("keydown", key, key \in keyState)
    /\ sinceBlur' = FALSE
    /\ UNCHANGED <<ecsVars, collisionVars, playerVars, callVars, loopVars,
                   chainVars, assetVars>>

\* handleKeyUp: acts only on a key recorded as down. The keyup of a key that
\* went down unseen (while another window had the focus) is left out: with
\* no record of the key the handler returns at once.
handleKeyUp(key) ==
    /\ key \in held
    /\ held' = held \ {key}
    /\ IF key \in keyState
       THEN /\ keyState' = keyState \ {key}
            /\ \E state \in {IF keyMap(key) # "none"
                             THEN setActionState(actionState, keyMap(key), FALSE)
                             ELSE actionState} :
                  /\ actionState' = state
                  /\ axes' = updateAxes(state)
            /\ emitted' = IF keyMap(key) # "none"
                          THEN Emitted(emitted, actionState, keyMap(key), FALSE)
                          ELSE emitted
       ELSE UNCHANGED <<keyState, actionState, axes, emitted>>
    /\ lastEvent' = InputEvent("keyup", key, key \in keyState)
    /\ UNCHANGED sinceBlur
    /\ UNCHANGED <<ecsVars, collisionVars, playerVars, callVars, loopVars,
                   chainVars, assetVars>>

handleMouseDown(button) ==
    /\ CanPress(button)
    /\ held' = held \cup {button}
    /\ actionState' = setActionState(actionState, buttonMap(button), TRUE)
    /\ emitted' = Emitted(emitted, actionState, buttonMap(button), TRUE)
    /\ lastEvent' = InputEvent("mousedown", button, FALSE)
    /\ sinceBlur' = FALSE
    /\ UNCHANGED <<keyState, axes>>
    /\ UNCHANGED <<ecsVars, collisionVars, playerVars, callVars, loopVars,
                   chainVars, assetVars>>

\* handleMouseUp; like a keyup it can arrive for a button that went down
\* outside the window.
handleMouseUp(button) ==
    /\ held' = held \ {button}
    /\ actionState' = setActionState(actionState, buttonMap(button), FALSE)
    /\ emitted' = Emitted(emitted, actionState, buttonMap(button), FALSE)
    /\ lastEvent' = InputEvent("mouseup", button, FALSE)
    /\ UNCHANGED <<keyState, axes, sinceBlur>>
    /\ UNCHANGED <<ecsVars, collisionVars, playerVars, callVars, loopVars,
                   chainVars, assetVars>>

handleBlurKeysOnly ==
    /\ keyState' = {}
    /\ axes' = [x |-> 0, y |-> 0]
    /\ lastEvent' = InputEvent("blur", "none", FALSE)
    /\ sinceBlur' = TRUE
    /\ UNCHANGED <<held, actionState, emitted>>
    /\ UNCHANGED <<ecsVars, collisionVars, playerVars, callVars, loopVars,
                   chainVars, assetVars>>

\* handleBlur: the window lost focus. Every action that has a recorded state
\* is set inactive; what is physically down stays down.
handleBlur ==
    /\ keyState' = {}
    /\ actionState' = [a \in InputAction |->
                          IF actionState[a] = "undefined" THEN "undefined"
                          ELSE setActionState(actionState, a, FALSE)[a]]
    /\ emitted' = [a \in InputAction |->
                      IF actionState[a] = "undefined" THEN emitted[a]
                      ELSE Emitted(emitted, actionState, a, FALSE)[a]]
    /\ axes' = [x |-> 0, y |-> 0]
    /\ lastEvent' = InputEvent("blur", "none", FALSE)
    /\ sinceBlur' = TRUE
    /\ UNCHANGED held
    /\ UNCHANGED <<ecsVars, collisionVars, playerVars, callVars, loopVars,
                   chainVars, assetVars>>

NextInput ==
    \/ \E key \in InputKeys : handleKeyDown(key)
    \/ \E key \in InputKeys : handleKeyUp(key)
    \/ \E button \in MouseButtons : handleMouseDown(button)
    \/ \E button \in MouseButtons : handleMouseUp(button)
    \/ handleBlur

SpecInput == InitInput /\ [][NextInput]_vars

getMovementAxes == [x |-> axes.x, y |-> axes.y]
MappedKeys == {key \in InputKeys : keyMap(key) # "none"}

\* C19 as stated: for every key of the key map, after a keydown of the key
\* its action is reported active (also when the keydown repeats), and after
\* the keyup of the key its action is reported inactive.
C19_KeyTracksAction ==
    \A key \in MappedKeys :
        /\ (lastEvent.type = "keydown" /\ lastEvent.input = key)
              => isActionActive(actionState, keyMap(key))
        /\ (lastEvent.type = "keyup" /\ lastEvent.input = key)
              => ~isActionActive(actionState, keyMap(key))

\* C19 amended: for every key of the key map, after a keydown of the key its
\* action is reported active (also when the keydown repeats); after the
\* keyup of a key that was recorded as down its action is reported inactive;
\* the keyup of a key whose record a blur has cleared changes no key record,
\* no action state and no axis.
C19_RecordedKeyTracksAction ==
    [][\A key \in MappedKeys :
          /\ (lastEvent'.type = "keydown" /\ lastEvent'.input = key)
                => isActionActive(actionState', keyMap(key))
          /\ (lastEvent'.type = "keyup" /\ lastEvent'.input = key
                 /\ lastEvent'.recorded)
                => ~isActionActive(actionState', keyMap(key))
          /\ (lastEvent'.type = "keyup" /\ lastEvent'.input = key
                 /\ ~lastEvent'.recorded)
                => UNCHANGED <<keyState, actionState, axes>>]_vars

C19_Witness ==
    /\ lastEvent = InputEvent("keyup", "w", TRUE)
    /\ ~isActionActive(actionState, "MOVE_UP")
    /\ actionState["MOVE_UP"] = "false"

\* C20: from a window blur until the next keydown or mousedown, whatever was
\* down before the blur, no action is active and getMovementAxes is (0,0).
C20_BlurClearsInput ==
    sinceBlur =>
        /\ \A action \in InputAction : ~isActionActive(actionState, action)
        /\ getMovementAxes = [x |-> 0, y |-> 0]

C20_Witness ==
    /\ sinceBlur
    /\ lastEvent.type = "keyup"
    /\ "button0" \in held
    /\ actionState["PRIMARY_ACTION"] = "false"
    /\ actionState["MOVE_UP"] = "false"


\* The net direction of the movement actions that are active now.
NetX == (IF isActionActive(actionState, "MOVE_RIGHT") THEN 1 ELSE 0)
        - (IF isActionActive(actionState, "MOVE_LEFT") THEN 1 ELSE 0)
NetY == (IF isActionActive(actionState, "MOVE_UP") THEN 1 ELSE 0)
        - (IF isActionActive(actionState, "MOVE_DOWN") THEN 1 ELSE 0)
Sign(a) == IF a > 0 THEN 1 ELSE IF a < 0 THEN 0 - 1 ELSE 0
UnitTol == 1 + 1

\* C21: after any sequence of input events getMovementAxes is the net
\* direction (right - left, up - down) of the active movement actions, scaled
\* to unit length when both components are non-zero: each component points
\* the way of its net direction and lies in [-1,1], a single direction gives
\* exactly +-1, a diagonal has equal magnitudes and a length that is 1 up to
\* rounding and never above 1, opposite directions cancel to 0, and (0,0) is
\* returned exactly when no net direction is held.
C21_MovementAxes ==
    /\ Sign(getMovementAxes.x) = NetX
    /\ Sign(getMovementAxes.y) = NetY
    /\ Abs(getMovementAxes.x) <= Scale
    /\ Abs(getMovementAxes.y) <= Scale
    /\ PairLeq(LengthSq(Vec(getMovementAxes.x, getMovementAxes.y, 0)),
               SqPair(Scale))
    /\ (NetX # 0 /\ NetY = 0) => Abs(getMovementAxes.x) = Scale
    /\ (NetX = 0 /\ NetY # 0) => Abs(getMovementAxes.y) = Scale
    /\ (NetX # 0 /\ NetY # 0) =>
          /\ Abs(getMovementAxes.x) = Abs(getMovementAxes.y)
          /\ Near(Length(Vec(getMovementAxes.x, getMovementAxes.y, 0)),
                  Scale, UnitTol)
    /\ (getMovementAxes = [x |-> 0, y |-> 0]) <=> (NetX = 0 /\ NetY = 0)

\* 'w' and 'a' are down together: a diagonal.
C21_Witness ==
    /\ keyState = {"w", "a"}
    /\ NetX = 0 - 1
    /\ NetY = 1
    /\ getMovementAxes.x < 0
    /\ getMovementAxes.y > 0
    /\ getMovementAxes.y < Scale


\* The physical inputs of an action, and those of them the manager has seen go
\* down and not yet come up (a blur clears the key records).
InputsOf(action) ==
    {key \in InputKeys : keyMap(key) = action}
        \cup {button \in MouseButtons : buttonMap(button) = action}
Released == lastEvent'.type \in {"keyup", "mouseup"}

\* C26: an action mapped to several physical inputs stays active as long as
\* at least one of them is still held: when an input of an active action is
\* released while another input of the same action is still down, the action
\* stays active and the movement axes do not change.
C26_SharedActionStaysActive ==
    [][\A action \in InputAction :
          (/\ Released
           /\ lastEvent'.input \in InputsOf(action)
           /\ isActionActive(actionState, action)
           /\ \E other \in InputsOf(action) \ {lastEvent'.input} :
                 /\ other \in held'
                 /\ other \in InputKeys => other \in keyState')
              => /\ isActionActive(actionState', action)
                 /\ getMovementAxes' = getMovementAxes]_vars

\* C27: for each action the 'pressed' and 'released' events on the event bus
\* strictly alternate and the first one is 'pressed', whatever the sequence
\* of keydown, repeated keydown, keyup, mousedown, mouseup and blur events;
\* and an event is emitted only in a step that changes whether the action is
\* active.
C27_EventsAlternate ==
    /\ [](\A action \in InputAction :
             /\ emitted[action].last # "none"
                   => emitted[action].last # emitted[action].prev
             /\ (emitted[action].prev = "none"
                    /\ emitted[action].last # "none")
                   => emitted[action].last = "pressed")
    /\ [][\A action \in InputAction :
             emitted'[action] # emitted[action]
                => isActionActive(actionState', action)
                      # isActionActive(actionState, action)]_vars

\* The alternation alone, once an action has had its first event.
C27_AlternateAfterFirst ==
    \A action \in InputAction :
        emitted[action].prev # "none"
            => emitted[action].last # emitted[action].prev


(***************************************************************************)
(* SpecPause: the continuations of gameLoop.  gameLoop sets a timer whose  *)
(* callback requests an animation frame for gameLoop; the P key, pauseGame *)
(* and resumeGame act on isRunning and frameId in between.                 *)

MaxContinuations == 3    \* timers and frame requests outstanding at once

Continuations == timers + frames

\* The state initGameEngine leaves: isRunning = true and one animation frame
\* requested, whose id is not kept in frameId.
InitPause ==
    /\ EcsAtRest
    /\ staticColliders = LevelColliders
    /\ CollisionSystemReady
    /\ NoPlayer
    /\ NoCall
    /\ NoInput
    /\ NoAssets
    /\ isRunning = TRUE
    /\ lastTime = 0
    /\ accumulator = 0
    /\ pending = "none"
    /\ frameTicks = 0
    /\ discarded = 0
    /\ timers = 0
    /\ frames = 1
    /\ frameId = "null"
    /\ resumedByKey = FALSE
    /\ stepped = FALSE

ChainRest ==
    UNCHANGED <<ecsVars, collisionVars, playerVars, callVars, lastTime,
                accumulator, pending, frameTicks, discarded, inputVars,
                assetVars>>

\* gameLoop called through an animation frame: return when not running,
\* else set the timer for the next frame and run the fixed updates (a frame
\* comes 1000/60 ms or more after the one before, a whole FIXED_TIMESTEP).
GameLoopFromFrame ==
    IF isRunning
    THEN timers' = timers + 1 /\ stepped' = TRUE
    ELSE UNCHANGED <<timers, stepped>>

\* The browser runs an outstanding animation frame request: the one frameId
\* names, or another one.
FrameCallback ==
    /\ frames > 0
    /\ frames' = frames - 1
    /\ \/ frameId = "live" /\ frameId' = "stale"
       \/ frames > (IF frameId = "live" THEN 1 ELSE 0) /\ frameId' = frameId
    /\ GameLoopFromFrame
    /\ UNCHANGED <<isRunning, resumedByKey>>
    /\ ChainRest

\* The timer's callback: if (isRunning) frameId = requestAnimationFrame(gameLoop).
TimerCallback ==
    /\ timers > 0
    /\ timers' = timers - 1
    /\ IF isRunning
       THEN frames' = frames + 1 /\ frameId' = "live"
       ELSE UNCHANGED <<frames, frameId>>
    /\ UNCHANGED <<isRunning, resumedByKey, stepped>>
    /\ ChainRest

\* The keydown handler for 'p': isRunning = !isRunning; if (isRunning)
\* resumeGame(), whose body is skipped because isRunning is true by then.
PauseKeyPressed ==
    /\ isRunning' = ~isRunning
    /\ resumedByKey' = ~isRunning
    /\ stepped' = FALSE
    /\ UNCHANGED <<timers, frames, frameId>>
    /\ ChainRest

\* pauseGame: isRunning = false, and the request frameId names is cancelled.
pauseGame ==
    /\ isRunning' = FALSE
    /\ frames' = IF frameId = "live" THEN frames - 1 ELSE frames
    /\ frameId' = "null"
    /\ resumedByKey' = FALSE
    /\ UNCHANGED <<timers, stepped>>
    /\ ChainRest

\* resumeGame: when not running, isRunning = true, lastTime = now, and
\* gameLoop() is called directly: it sets a timer, and with deltaTime zero no
\* fixed update is due.
resumeGame ==
    /\ Continuations < MaxContinuations
    /\ IF ~isRunning
       THEN isRunning' = TRUE /\ timers' = timers + 1
       ELSE UNCHANGED <<isRunning, timers>>
    /\ resumedByKey' = FALSE
    /\ UNCHANGED <<frames, frameId, stepped>>
    /\ ChainRest

NextPause ==
    \/ FrameCallback
    \/ TimerCallback
    \/ PauseKeyPressed
    \/ pauseGame
    \/ resumeGame

SpecPause == InitPause /\ [][NextPause]_vars

\* The same with the browser running every timer and every animation frame
\* it holds.
SpecPauseFair ==
    SpecPause /\ WF_vars(FrameCallback) /\ WF_vars(TimerCallback)

\* C24: after the loop was paused with the P key, a further P key press
\* resumes it: from then on, unless it is paused again, fixedUpdate is
\* eventually called.
C24_KeyResumes ==
    (isRunning /\ resumedByKey /\ ~stepped) ~> (stepped \/ ~isRunning)

\* C25: at every moment at most one continuation of gameLoop, a timer or an
\* animation frame request, is outstanding.
C25_OneContinuation == Continuations <= 1


(***************************************************************************)
(* AssetManager (SpecAssets).  A key's record is cache[key] with ref > 0; *)
(* gen numbers the loader calls of the key, so <<key, gen>> names the      *)
(* promise that load() made for that call.  The log keeps, per key, the    *)
(* load and release calls since the record was created, the loader and    *)
(* disposeAsset calls, and the events dispatched on window.                *)

MaxLoads == 2          \* load calls on one record
MaxLoaderCalls == 4    \* loader calls in all
MaxInitialCalls == 2   \* loadInitialAssets calls

\* The keys that load() and release() are called with from outside: an
\* initial asset and a key of the caller's own.
DirectKeys == {"player", "music"}

Cached(key) == cache[key].ref > 0
RECURSIVE Total(_, _)
Total(count, keys) ==
    IF keys = {} THEN 0
    ELSE LET key == CHOOSE k \in keys : TRUE
         IN  count[key] + Total(count, keys \ {key})
LoaderCallsMade == Total(assetLog.loaderCalls, AssetKeys)
PromiseOf(c, key) == <<key, c[key].gen>>
AssetRest ==
    UNCHANGED <<ecsVars, collisionVars, playerVars, callVars, loopVars,
                inputVars, chainVars>>

InitAssets ==
    /\ EcsAtRest
    /\ staticColliders = <<>>
    /\ CollisionSystemReady
    /\ NoPlayer
    /\ NoCall
    /\ NoLoop
    /\ NoInput
    /\ NoChain
    /\ NoAssets

\* The cache after load(key): one more reference on the record there is, or
\* a new record of one reference for the loader call numbered gen.
Loaded(c, key, gen) ==
    IF c[key].ref > 0
    THEN [c EXCEPT ![key].ref = @ + 1]
    ELSE [c EXCEPT ![key] = [ref |-> 1, gen |-> gen, asset |-> 0]]

\* The log after load(key) on cache c.
LoadLogged(log, c, key) ==
    IF c[key].ref > 0
    THEN [log EXCEPT !.loads[key] = @ + 1,
                     !.returned = PromiseOf(c, key)]
    ELSE [log EXCEPT !.loaderCalls[key] = @ + 1,
                     !.loads[key] = 1,
                     !.releases[key] = 0,
                     !.returned = <<key, log.loaderCalls[key] + 1>>]

CanLoad(key) ==
    IF Cached(key) THEN assetLog.loads[key] < MaxLoads
    ELSE LoaderCallsMade < MaxLoaderCalls

load(key) ==
    /\ CanLoad(key)
    /\ cache' = Loaded(cache, key, assetLog.loaderCalls[key] + 1)
    /\ totalAssets' = IF Cached(key) THEN totalAssets ELSE totalAssets + 1
    /\ loading' = IF Cached(key) THEN loading
                  ELSE loading \cup {<<key, assetLog.loaderCalls[key] + 1>>}
    /\ assetLog' = [LoadLogged(assetLog, cache, key) EXCEPT
                       !.op = "load", !.key = key, !.completed = 0]
    /\ UNCHANGED <<loadedAssets, fulfilled, awaiting>>
    /\ AssetRest

\* release without the disposeAsset call.
releaseUndisposed(key) ==
    /\ Cached(key) \/ assetLog.releases[key] <= assetLog.loads[key]
    /\ cache' = IF ~Cached(key) THEN cache
                ELSE IF cache[key].ref = 1 THEN [cache EXCEPT ![key] = NoRecord]
                ELSE [cache EXCEPT ![key].ref = @ - 1]
    /\ assetLog' = [assetLog EXCEPT
                       !.op = "release", !.key = key, !.completed = 0,
                       !.releases[key] = @ + 1]
    /\ UNCHANGED <<totalAssets, loadedAssets, loading, fulfilled, awaiting>>
    /\ AssetRest

\* release(key): nothing without a record; otherwise one reference less, and
\* at zero disposeAsset and cache.delete.  A loader call of the key that is
\* still under way goes on.
release(key) ==
    /\ Cached(key) \/ assetLog.releases[key] <= assetLog.loads[key]
    /\ cache' = IF ~Cached(key) THEN cache
                ELSE IF cache[key].ref = 1 THEN [cache EXCEPT ![key] = NoRecord]
                ELSE [cache EXCEPT ![key].ref = @ - 1]
    /\ assetLog' = [assetLog EXCEPT
                       !.op = "release", !.key = key, !.completed = 0,
                       !.releases[key] = @ + 1,
                       !.disposed[key] =
                           IF Cached(key) /\ cache[key].ref = 1
                           THEN @ + 1 ELSE @]
    /\ UNCHANGED <<totalAssets, loadedAssets, loading, fulfilled, awaiting>>
    /\ AssetRest

\* The Promise.all entries of `waiting` whose promises are all in `done`.
Completed(waiting, done) == {w \in waiting : w.promises \subseteq done}

\* loadInitialAssets: the counters are set, then load() runs for every
\* initial asset, then Promise.all waits for the promises returned; when they
\* are all resolved already its callback runs before anything else does.
loadInitialAssets ==
    /\ assetLog.initialCalls < MaxInitialCalls
    /\ \A key \in MOCK_ASSETS : Cached(key) => CanLoad(key)
    /\ LoaderCallsMade + Cardinality({key \in MOCK_ASSETS : ~Cached(key)})
          <= MaxLoaderCalls
    /\ \E fresh \in {{key \in MOCK_ASSETS : ~Cached(key)}} :
       \E c \in {[key \in AssetKeys |->
                    IF key \in MOCK_ASSETS
                    THEN Loaded(cache, key, assetLog.loaderCalls[key] + 1)[key]
                    ELSE cache[key]]} :
       \E all \in {[call |-> assetLog.initialCalls + 1,
                    promises |-> {PromiseOf(c, key) : key \in MOCK_ASSETS}]} :
          /\ cache' = c
          /\ totalAssets' = Cardinality(MOCK_ASSETS) + Cardinality(fresh)
          /\ loadedAssets' = 0
          /\ loading' = loading \cup {PromiseOf(c, key) : key \in fresh}
          /\ awaiting' = IF all.promises \subseteq fulfilled THEN awaiting
                         ELSE awaiting \cup {all}
          /\ assetLog' =
                [assetLog EXCEPT
                    !.op = "loadInitialAssets", !.key = "none",
                    !.returned = <<"none", 0>>,
                    !.loaderCalls = [key \in AssetKeys |->
                        IF key \in fresh THEN @[key] + 1 ELSE @[key]],
                    !.loads = [key \in AssetKeys |->
                        IF key \in fresh THEN 1
                        ELSE IF key \in MOCK_ASSETS THEN @[key] + 1
                        ELSE @[key]],
                    !.releases = [key \in AssetKeys |->
                        IF key \in fresh THEN 0 ELSE @[key]],
                    !.initialCalls = @ + 1,
                    !.completed =
                        IF all.promises \subseteq fulfilled THEN 1 ELSE 0,
                    !.assetsLoaded =
                        IF all.promises \subseteq fulfilled THEN @ + 1 ELSE @]
    /\ UNCHANGED fulfilled
    /\ AssetRest

\* The loader's promise resolves: the then-callback of load() counts the
\* asset, runs updateProgress ('asset-progress', and 'assets-loaded' when the
\* counters are equal), stores the asset in the record now under the key and
\* resolves the promise; every Promise.all that waited for it alone then
\* dispatches 'assets-loaded'.
LoaderResolves(key, gen) ==
    /\ <<key, gen>> \in loading
    /\ loading' = loading \ {<<key, gen>>}
    /\ loadedAssets' = loadedAssets + 1
    /\ fulfilled' = fulfilled \cup {<<key, gen>>}
    /\ cache' = IF Cached(key) THEN [cache EXCEPT ![key].asset = gen]
                ELSE cache
    /\ \E done \in {Completed(awaiting, fulfilled \cup {<<key, gen>>})} :
          /\ awaiting' = awaiting \ done
          /\ assetLog' =
                [assetLog EXCEPT
                    !.op = "resolve", !.key = key,
                    !.completed = Cardinality(done),
                    !.progress = [loaded |-> loadedAssets + 1,
                                  total |-> totalAssets],
                    !.assetsLoaded =
                        @ + (IF loadedAssets + 1 = totalAssets THEN 1 ELSE 0)
                          + Cardinality(done)]
    /\ UNCHANGED totalAssets
    /\ AssetRest

\* The loader's promise rejects: load() logs the error and rejects its
\* promise; the record stays.  The loaders of the initial assets only
\* resolve, a loader passed to load() by a caller can reject.
LoaderRejects(key, gen) ==
    /\ key \notin MOCK_ASSETS
    /\ <<key, gen>> \in loading
    /\ loading' = loading \ {<<key, gen>>}
    /\ assetLog' = [assetLog EXCEPT
                       !.op = "reject", !.key = key, !.completed = 0]
    /\ UNCHANGED <<cache, totalAssets, loadedAssets, fulfilled, awaiting>>
    /\ AssetRest

NextAssets ==
    \/ \E key \in DirectKeys : load(key)
    \/ \E key \in DirectKeys : release(key)
    \/ loadInitialAssets
    \/ \E key \in AssetKeys : \E gen \in 1..MaxLoaderCalls :
          LoaderResolves(key, gen)
    \/ \E key \in AssetKeys : \E gen \in 1..MaxLoaderCalls :
          LoaderRejects(key, gen)

SpecAssets == InitAssets /\ [][NextAssets]_vars

LoadCalled(key) == assetLog'.op = "load" /\ assetLog'.key = key
ReleaseCalled(key) == assetLog'.op = "release" /\ assetLog'.key = key
InitialCalled == assetLog'.op = "loadInitialAssets"

\* C29: the reference count is exact per key: a record exists exactly while
\* the load calls for the key exceed the release calls since the record was
\* created, and its ref is their difference; a load of a cached key (by
\* load() or by loadInitialAssets) returns the record's promise and calls no
\* loader; disposeAsset is called once per record, in the release that takes
\* the count to zero; the release of a key without a record changes nothing.
C29_ExactReferenceCount ==
    /\ [](\A key \in AssetKeys :
             /\ Cached(key) <=> assetLog.loads[key] > assetLog.releases[key]
             /\ Cached(key) =>
                   cache[key].ref
                      = assetLog.loads[key] - assetLog.releases[key]
             /\ assetLog.disposed[key]
                   = assetLog.loaderCalls[key]
                        - (IF Cached(key) THEN 1 ELSE 0))
    /\ [][\A key \in AssetKeys :
             /\ (LoadCalled(key) /\ Cached(key)) =>
                   /\ assetLog'.returned = PromiseOf(cache, key)
                   /\ PromiseOf(cache', key) = PromiseOf(cache, key)
                   /\ assetLog'.loaderCalls = assetLog.loaderCalls
                   /\ loading' = loading
             /\ (InitialCalled /\ key \in MOCK_ASSETS /\ Cached(key)) =>
                   /\ PromiseOf(cache', key) = PromiseOf(cache, key)
                   /\ assetLog'.loaderCalls[key] = assetLog.loaderCalls[key]
             /\ assetLog'.disposed[key] # assetLog.disposed[key] =>
                   /\ ReleaseCalled(key)
                   /\ cache[key].ref = 1
                   /\ cache'[key] = NoRecord
                   /\ assetLog'.disposed[key] = assetLog.disposed[key] + 1
             /\ (ReleaseCalled(key) /\ ~Cached(key)) =>
                   /\ UNCHANGED <<cache, totalAssets, loadedAssets, loading,
                                  fulfilled, awaiting>>
                   /\ assetLog'.disposed = assetLog.disposed
                   /\ assetLog'.loaderCalls = assetLog.loaderCalls]_vars

\* 'player' was loaded twice and released twice, which disposed of it, and
\* then released once more.
C29_Witness ==
    /\ assetLog.op = "release"
    /\ assetLog.key = "player"
    /\ ~Cached("player")
    /\ assetLog.loads["player"] = MaxLoads
    /\ assetLog.releases["player"] = MaxLoads + 1
    /\ assetLog.disposed["player"] = 1

\* C30: while a loadInitialAssets call is under way totalAssets is the number
\* of initial assets and loadedAssets does not exceed it; the 'asset-progress'
\* event of the step in which the last initial asset of a call finishes
\* carries progress 1; and 'assets-loaded' has been dispatched once for every
\* loadInitialAssets call whose assets have all finished, and not otherwise.
C30_InitialAssetsProgress ==
    /\ awaiting # {} =>
          /\ totalAssets = Cardinality(MOCK_ASSETS)
          /\ loadedAssets <= totalAssets
    /\ (assetLog.op = "resolve" /\ assetLog.completed > 0) =>
          assetLog.progress.loaded = assetLog.progress.total
    /\ assetLog.assetsLoaded + Cardinality(awaiting) = assetLog.initialCalls

\* The parts of C30 one by one.
C30_TotalIsInitialCount ==
    awaiting # {} => totalAssets = Cardinality(MOCK_ASSETS)
C30_LoadedWithinTotal == awaiting # {} => loadedAssets <= totalAssets
C30_LastProgressIsOne ==
    (assetLog.op = "resolve" /\ assetLog.completed > 0) =>
        assetLog.progress.loaded = assetLog.progress.total
C30_OncePerCall ==
    assetLog.assetsLoaded + Cardinality(awaiting) = assetLog.initialCalls
\* The last two with loadInitialAssets as the only caller: no load() and no
\* release() from outside.
OnlyInitialCalls ==
    /\ assetLog.loaderCalls["music"] = 0
    /\ \A key \in MOCK_ASSETS :
          /\ assetLog.loaderCalls[key]
                = (IF assetLog.initialCalls > 0 THEN 1 ELSE 0)
          /\ assetLog.loads[key] = assetLog.initialCalls
          /\ assetLog.releases[key] = 0
C30_LastProgressIsOneAlone == OnlyInitialCalls => C30_LastProgressIsOne
C30_OncePerCallAlone == OnlyInitialCalls => C30_OncePerCall

====
